---- MODULE Spec2Model ----
(***************************************************************************)
(* Model of lib/util/schema-utils/index.ts: the tolerant collection        *)
(* validators LooseArray and LooseRecord, the text-format validators, and  *)
(* the circular-reference detector isCircular / NotCircular.               *)
(*                                                                         *)
(* JavaScript values are modelled as atoms (null, strings, numbers and     *)
(* references to heap objects); arrays and plain objects live in `heap`,   *)
(* so that object identity, sharing and cycles are expressible.            *)
(***************************************************************************)
EXTENDS Integers, Sequences, FiniteSets, TLC

VARIABLES
  schema,        \* the validator under test: its kind and its arguments
  input,         \* the value handed to validate (an atom)
  heap,          \* node id -> [kind, keys, vals]: the arrays and objects
  pc,            \* position of the validate call
  idx,           \* loop index of the transform callback (elements done)
  output,        \* the transform's local `output`
  issues,        \* the transform's local `issues`
  result,        \* the safeParse result once the call has returned
  onErrorCalls,  \* payloads the onError callback was invoked with
  onErrorRet,    \* what the onError callback returned (ignored by the code)
  calls,         \* log of element / key / value validator invocations
  downstream,    \* log of effects composed after the validator that ran
  inflight,      \* call id -> the locals of a validate call, when several
                 \* calls are made on one validator instance
  config,        \* gitlab: the module's `config` (its issueList)
  platform,      \* gitlab: what the GitLab server holds
  params,        \* gitlab: the arguments and environment of the operation
  gpc,           \* gitlab: position of the operation in progress
  attempt,       \* gitlab: the loop variable `attempt` of tryPrAutomerge
  api,           \* gitlab: the requests made, each with its outcome
  ret            \* gitlab: what the last operation returned

\* the variables of the schema utilities and those of the gitlab platform
schemaVars == <<schema, input, heap, pc, idx, output, issues, result,
                onErrorCalls, onErrorRet, calls, downstream, inflight>>
gitlabVars == <<config, platform, params, gpc, attempt, api, ret>>

vars == <<schema, input, heap, pc, idx, output, issues, result,
          onErrorCalls, onErrorRet, calls, downstream, inflight,
          config, platform, params, gpc, attempt, api, ret>>

\* the gitlab platform is not in use
GitlabIdle ==
  /\ config = <<>>
  /\ platform = <<>>
  /\ params = <<>>
  /\ gpc = "idle"
  /\ attempt = 0
  /\ api = <<>>
  /\ ret = "none"

----------------------------------------------------------------------------
(* Bounds of the model *)

MaxLen == 3      \* longest input array / record
MaxNodes == 3    \* heap objects in the graphs given to isCircular
MaxEdges == 3    \* total element/value slots in such a graph
MaxCallLen == 2  \* longest input of two calls made on one instance
MaxChecks == 2   \* most commit statuses of a branch
MaxRetry == 2    \* largest RENOVATE_X_GITLAB_AUTO_MERGEABLE_CHECK_ATTEMPS
MaxIssues == 2   \* most issues the project accepts

----------------------------------------------------------------------------
(* Values *)

Null == [t |-> "null", s |-> "", n |-> 0]
Str(x) == [t |-> "str", s |-> x, n |-> 0]
Num(k) == [t |-> "num", s |-> "", n |-> k]
Ref(i) == [t |-> "ref", s |-> "", n |-> i]

\* Array.isArray(value)
IsArray(h, v) == v.t = "ref" /\ h[v.n].kind = "arr"

\* a plain object: typeof value === 'object', not null, not an array
IsPlainObject(h, v) == v.t = "ref" /\ h[v.n].kind = "obj"

ArrNode(vals) == [kind |-> "arr", keys |-> <<>>, vals |-> vals]
ObjNode(keys, vals) == [kind |-> "obj", keys |-> keys, vals |-> vals]

----------------------------------------------------------------------------
(* Object graphs: the objects a value refers to and those reachable from it *)

Children(h, n) ==
  {h[n].vals[i].n : i \in {j \in DOMAIN h[n].vals : h[n].vals[j].t = "ref"}}

RECURSIVE ReachableFrom(_, _)
ReachableFrom(h, S) ==
  LET T == S \cup UNION {Children(h, n) : n \in S}
  IN  IF T = S THEN S ELSE ReachableFrom(h, T)

Descendants(h, v) == IF v.t = "ref" THEN ReachableFrom(h, {v.n}) ELSE {}

\* some object reachable from v is reachable from itself
HasCycle(h, v) ==
  \E n \in Descendants(h, v) : n \in ReachableFrom(h, Children(h, n))

----------------------------------------------------------------------------
(* isCircular, lines 322-352 *)

RECURSIVE isCircularFrom(_, _, _, _)
RECURSIVE isCircular(_, _, _)

\* a variant that returns what the first child returns
isCircularFromFirstChild(h, kids, i, downstreamVisited) ==
  IF i > Len(kids) THEN FALSE
  ELSE isCircular(h, kids[i], downstreamVisited)

\* a variant whose visited set is shared: what a child's traversal visited
\* stays in the set the next sibling is given
RECURSIVE isCircularFromShared(_, _, _, _)
isCircularFromShared(h, kids, i, downstreamVisited) ==
  IF i > Len(kids) THEN FALSE
  ELSE IF isCircular(h, kids[i], downstreamVisited) THEN TRUE
  ELSE isCircularFromShared(h, kids, i + 1,
         downstreamVisited \cup Descendants(h, kids[i]))

\* the for-loops of lines 335-339 and 345-349: the first circular child
\* returns true and ends the loop
isCircularFrom(h, kids, i, downstreamVisited) ==
  IF i > Len(kids) THEN FALSE
  ELSE IF isCircular(h, kids[i], downstreamVisited) THEN TRUE
  ELSE isCircularFrom(h, kids, i + 1, downstreamVisited)

isCircular(h, value, visited) ==
  IF value.t # "ref" THEN FALSE
  ELSE IF value.n \in visited THEN TRUE
  ELSE LET downstreamVisited == visited \cup {value.n}
       IN  isCircularFrom(h, h[value.n].vals, 1, downstreamVisited)

\* The same traversal with its calls written down: one frame for each call
\* of isCircular, in the order the calls are made, with the value, the
\* visited set the call received and the objects whose calls are open (the
\* call stack); `found` is what the call returns.
RECURSIVE isCircularWalkFrom(_, _, _, _, _)
RECURSIVE isCircularWalk(_, _, _, _)

Frame(value, visited, path) ==
  [value |-> value, visited |-> visited, path |-> path]

\* the objects the calls of some frames were made on
Walked(frames) ==
  {frames[k].value.n : k \in {j \in DOMAIN frames : frames[j].value.t = "ref"}}

\* a variant that goes through every child and returns whether any was
\* circular
RECURSIVE isCircularWalkFromEvery(_, _, _, _, _)
isCircularWalkFromEvery(h, kids, i, downstreamVisited, path) ==
  IF i > Len(kids) THEN [found |-> FALSE, frames |-> <<>>]
  ELSE LET child == isCircularWalk(h, kids[i], downstreamVisited, path)
           rest == isCircularWalkFromEvery(h, kids, i + 1, downstreamVisited,
                                           path)
       IN  [found |-> child.found \/ rest.found,
            frames |-> child.frames \o rest.frames]

\* a variant whose visited set is one set that every call adds to
RECURSIVE isCircularWalkFromShared(_, _, _, _, _)
isCircularWalkFromShared(h, kids, i, downstreamVisited, path) ==
  IF i > Len(kids) THEN [found |-> FALSE, frames |-> <<>>]
  ELSE LET child == isCircularWalk(h, kids[i], downstreamVisited, path)
       IN  IF child.found THEN child
           ELSE LET rest == isCircularWalkFromShared(h, kids, i + 1,
                              downstreamVisited \cup Walked(child.frames),
                              path)
                IN  [found |-> rest.found,
                     frames |-> child.frames \o rest.frames]

\* the for-loops of lines 335-339 and 345-349
isCircularWalkFrom(h, kids, i, downstreamVisited, path) ==
  IF i > Len(kids) THEN [found |-> FALSE, frames |-> <<>>]
  ELSE LET child == isCircularWalk(h, kids[i], downstreamVisited, path)
       IN  IF child.found THEN child
           ELSE LET rest == isCircularWalkFrom(h, kids, i + 1,
                                               downstreamVisited, path)
                IN  [found |-> rest.found,
                     frames |-> child.frames \o rest.frames]

\* lines 322-352
isCircularWalk(h, value, visited, path) ==
  LET frame == Frame(value, visited, path)
  IN  IF value.t # "ref" THEN [found |-> FALSE, frames |-> <<frame>>]
      ELSE IF value.n \in visited THEN [found |-> TRUE, frames |-> <<frame>>]
      ELSE LET downstreamVisited == visited \cup {value.n}
               below == isCircularWalkFrom(h, h[value.n].vals, 1,
                                           downstreamVisited,
                                           Append(path, value.n))
           IN  [found |-> below.found, frames |-> <<frame>> \o below.frames]

----------------------------------------------------------------------------
(* Validation results and issues *)

Issue(code, message, fatal) ==
  [code |-> code, path |-> <<>>, message |-> message, fatal |-> fatal]

\* safeParse results: `out` holds the output (one item) or nothing
Success(x) == [ok |-> TRUE, out |-> <<x>>, issues |-> <<>>]
Failure(iss) == [ok |-> FALSE, out |-> <<>>, issues |-> iss]

\* the base schemas the validators are built on: z.string(), z.array(z.any()),
\* z.record(z.any()); each fails with one invalid_type issue at the root path
InvalidType(expected) == Issue("invalid_type", expected, FALSE)

\* ctx.addIssue inside an effect: a fatal issue aborts the parse, any other
\* issue leaves it dirty
AddIssueStatus(issue) == IF issue.fatal THEN "aborted" ELSE "dirty"

----------------------------------------------------------------------------
(* NotCircular, lines 354-364 *)

\* a variant whose issue is not marked fatal
NotCircularIssueNotFatal ==
  Issue("custom", "values cannot be circular data structures", FALSE)

NotCircularIssue ==
  Issue("custom", "values cannot be circular data structures", TRUE)

\* a variant that never finds a cycle
NotCircularParseAccepts(h, val) ==
  [status |-> "valid", value |-> val, issues |-> <<>>]

\* z.unknown().superRefine(...): the inner parse always succeeds; the
\* refinement adds its issue when isCircular(val)
NotCircularParse(h, val) ==
  IF isCircular(h, val, {})
  THEN [status |-> AddIssueStatus(NotCircularIssue), value |-> val,
        issues |-> <<NotCircularIssue>>]
  ELSE [status |-> "valid", value |-> val, issues |-> <<>>]

NotCircular(h, val) ==
  LET r == NotCircularParse(h, val)
  IN  IF r.status = "valid" THEN Success(r.value) ELSE Failure(r.issues)

\* Whether an effect composed after a validator runs on its result: a
\* refinement runs unless the parse is aborted, a transform and the second
\* stage of a pipe run only on a valid parse
DownstreamRuns(after, status) ==
  CASE after = "refine" -> status # "aborted"
    [] after = "transform" -> status = "valid"
    [] after = "pipe" -> status = "valid"
    [] OTHER -> FALSE

----------------------------------------------------------------------------
(* The fixed part of the heap used by the collection and format validators *)

InputRef == Ref(1)       \* the array or object given to LooseArray / LooseRecord
CyclicObject == Ref(2)   \* an object whose `self` property is the object itself
PlainObject == Ref(3)    \* the acyclic object {x: 1}
ListArray == Ref(4)      \* the array ["a"]
ParsedObject == Ref(5)   \* the object JSON.parse returns for the text {"x":1}
CopiedObject == Ref(6)   \* the object z.object returns for the object {x: 1}

FixedHeap(inputNode) ==
  [i \in {r.n : r \in {InputRef, CyclicObject, PlainObject, ListArray,
                         ParsedObject, CopiedObject}} |->
     CASE i = InputRef.n -> inputNode
       [] i = CyclicObject.n -> ObjNode(<<"self">>, <<CyclicObject>>)
       [] i = PlainObject.n -> ObjNode(<<"x">>, <<Num(1)>>)
       [] i = ListArray.n -> ArrNode(<<Str("a")>>)
       [] OTHER -> ObjNode(<<"x">>, <<Num(1)>>)]

----------------------------------------------------------------------------
(* Text-format validators, lines 209-286 *)

Formats ==
  {"Json", "Json5", "Jsonc", "Yaml", "MultidocYaml", "multidocYaml", "Toml"}

\* the message of the issue each catch block adds
FormatMessage(f) ==
  CASE f = "Json" -> "Invalid JSON"
    [] f = "Json5" -> "Invalid JSON5"
    [] f = "Jsonc" -> "Invalid JSONC"
    [] f = "Yaml" -> "Invalid YAML"
    [] f = "MultidocYaml" -> "Invalid YAML"
    [] f = "multidocYaml" -> "Invalid YAML"
    [] OTHER -> "Invalid TOML"

Threw == [threw |-> TRUE, value |-> Null]
Returned(v) == [threw |-> FALSE, value |-> v]

\* JSON.parse on the texts of the model
JsonParse(text) ==
  CASE text = "1" -> Returned(Num(1))
    [] text = "null" -> Returned(Null)
    [] text = "\"a\"" -> Returned(Str("a"))
    [] text = "{\"x\":1}" -> Returned(ParsedObject)
    [] OTHER -> Threw

\* what a parser call can do: JSON.parse is a function of the text, the
\* other parsers are external and either throw or return some value
ParsedValues == {Null, Num(1), Str("a"), ParsedObject}

ParserOutcomes(f, text) ==
  IF f = "Json" THEN {JsonParse(text)}
  ELSE {Threw} \cup {Returned(v) : v \in ParsedValues}

\* a variant whose catch block adds no issue and returns null
FormatTransformSwallows(f, outcome) ==
  [status |-> "valid", value |-> outcome.value, issues |-> <<>>]

\* a variant without the try/catch: the parser's exception leaves the
\* transform and, with it, the validate call
FormatTransformRethrows(f, outcome) ==
  IF outcome.threw
  THEN [status |-> "thrown", value |-> Null, issues |-> <<>>]
  ELSE [status |-> "valid", value |-> outcome.value, issues |-> <<>>]

\* a variant that takes a falsy parse result for a failure
FormatTransformFalsy(f, outcome) ==
  IF outcome.threw \/ outcome.value.t = "null"
  THEN LET issue == Issue("custom", FormatMessage(f), FALSE)
       IN  [status |-> AddIssueStatus(issue), value |-> Null,
            issues |-> <<issue>>]
  ELSE [status |-> "valid", value |-> outcome.value, issues |-> <<>>]

\* the transform callback: try { return parse(str) } catch { ctx.addIssue(...) }
FormatTransform(f, outcome) ==
  IF outcome.threw
  THEN LET issue == Issue("custom", FormatMessage(f), FALSE)
       IN  [status |-> AddIssueStatus(issue), value |-> Null,
            issues |-> <<issue>>]
  ELSE [status |-> "valid", value |-> outcome.value, issues |-> <<>>]

\* z.string().transform(...): the transform runs only on a string
FormatParse(f, x, outcome) ==
  IF x.t # "str"
  THEN [status |-> "aborted", value |-> Null,
        issues |-> <<InvalidType("string")>>]
  ELSE FormatTransform(f, outcome)

FormatResult(f, x, outcome) ==
  LET r == FormatParse(f, x, outcome)
  IN  IF r.status = "valid" THEN Success(r.value) ELSE Failure(r.issues)

Json(x) == FormatResult("Json", x, JsonParse(x.s))

----------------------------------------------------------------------------
(* UtcDate (lines 237-246). DateTime.fromISO(text, { zone }) of luxon: the
   ISO 8601 grammar extracts the fields of the text, a field out of its
   calendar range makes the DateTime invalid (nothing is clamped), a text
   with an offset denotes the instant at that offset, a text without one is
   read in the zone given, and the DateTime returned is in that zone. An
   unreadable text is reported by an invalid DateTime, not by an exception. *)

NoFields ==
  [matched |-> FALSE, y |-> 0, mo |-> 0, d |-> 0, h |-> 0,
   hasOffset |-> FALSE, offset |-> 0]

Fields(y, mo, d, h, hasOffset, offset) ==
  [matched |-> TRUE, y |-> y, mo |-> mo, d |-> d, h |-> h,
   hasOffset |-> hasOffset, offset |-> offset]

\* the ISO 8601 grammar on the texts of the model; offsets are in hours
IsoFields(text) ==
  CASE text = "2024-03-01T00:00:00Z" -> Fields(2024, 3, 1, 0, TRUE, 0)
    [] text = "2024-03-01T00:00:00" -> Fields(2024, 3, 1, 0, FALSE, 0)
    [] text = "2024-03-01T02:00:00+02:00" -> Fields(2024, 3, 1, 2, TRUE, 2)
    [] text = "2024-02-29T12:00:00" -> Fields(2024, 2, 29, 12, FALSE, 0)
    [] text = "2023-02-29T12:00:00" -> Fields(2023, 2, 29, 12, FALSE, 0)
    [] text = "2024-02-30T00:00:00Z" -> Fields(2024, 2, 30, 0, TRUE, 0)
    [] text = "2024-13-01T00:00:00Z" -> Fields(2024, 13, 1, 0, TRUE, 0)
    [] text = "2024-03-01T25:00:00" -> Fields(2024, 3, 1, 25, FALSE, 0)
    [] OTHER -> NoFields

IsLeapYear(y) == y % 4 = 0 /\ (y % 100 # 0 \/ y % 400 = 0)

DaysInMonth(y, mo) ==
  IF mo = 2 THEN (IF IsLeapYear(y) THEN 29 ELSE 28)
  ELSE IF mo \in {4, 6, 9, 11} THEN 30 ELSE 31

RECURSIVE DaysBeforeMonth(_, _)
DaysBeforeMonth(y, mo) ==
  IF mo <= 1 THEN 0
  ELSE DaysBeforeMonth(y, mo - 1) + DaysInMonth(y, mo - 1)

\* the days from 0001-01-01 to the calendar day
DayNumber(y, mo, d) ==
  LET p == y - 1
  IN  p * 365 + (p \div 4) - (p \div 100) + (p \div 400)
      + DaysBeforeMonth(y, mo) + d - 1

\* the offset of a zone from UTC, in hours; "system" is the zone of a host
\* that is one hour ahead of UTC
ZoneOffset(zone) == IF zone = "utc" THEN 0 ELSE 1

InvalidDateTime == [isValid |-> FALSE, zone |-> "", ts |-> 0]

\* ts counts the hours of the instant from 0001-01-01T00:00Z
FromISO(text, zone) ==
  LET f == IsoFields(text)
  IN  IF ~f.matched THEN InvalidDateTime
      ELSE IF \/ f.mo \notin 1..12
              \/ f.d \notin 1..DaysInMonth(f.y, f.mo)
              \/ f.h \notin 0..24
      THEN InvalidDateTime
      ELSE [isValid |-> TRUE, zone |-> zone,
            ts |-> DayNumber(f.y, f.mo, f.d) * 24 + f.h
                   - (IF f.hasOffset THEN f.offset ELSE ZoneOffset(zone))]

\* the DateTime as a value of an output
DateValue(date) == [t |-> "date", s |-> date.zone, n |-> date.ts]

\* a variant that reads the text in the zone of the host
UtcDateFromISOSystemZone(str) == FromISO(str, "system")

\* const date = DateTime.fromISO(str, { zone: 'utc' })
UtcDateFromISO(str) == FromISO(str, "utc")

\* the transform callback: if (!date.isValid) { ctx.addIssue(...) }
UtcDateTransform(date) ==
  IF ~date.isValid
  THEN LET issue == Issue("custom", "Invalid date", FALSE)
       IN  [status |-> AddIssueStatus(issue), value |-> Null,
            issues |-> <<issue>>]
  ELSE [status |-> "valid", value |-> DateValue(date), issues |-> <<>>]

\* z.string({ description }).transform(...)
UtcDateParse(x) ==
  IF x.t # "str"
  THEN [status |-> "aborted", value |-> Null,
        issues |-> <<InvalidType("string")>>]
  ELSE UtcDateTransform(UtcDateFromISO(x.s))

UtcDate(x) ==
  LET r == UtcDateParse(x)
  IN  IF r.status = "valid" THEN Success(r.value) ELSE Failure(r.issues)

----------------------------------------------------------------------------
(* Element, key and value validators handed to LooseArray and LooseRecord *)

ZString(x) ==
  IF x.t = "str" THEN Success(x) ELSE Failure(<<InvalidType("string")>>)

\* z.string().toLowerCase() on the keys of the model
LowerCase(k) == IF k = "A" THEN "a" ELSE k

ZLower(x) ==
  IF x.t = "str" THEN Success(Str(LowerCase(x.s)))
  ELSE Failure(<<InvalidType("string")>>)

\* z.enum(['a', 'A'])
ZEnumA(x) ==
  IF x.t = "str" /\ x.s \in {"a", "A"} THEN Success(x)
  ELSE Failure(<<Issue("invalid_enum_value", "Invalid enum value", FALSE)>>)

\* z.any(), the default key schema of LooseRecord (line 138)
ZAny(x) == Success(x)

\* the issue z.object reports for a property, at the path of the property
PropertyIssue(key, iss) == [iss EXCEPT !.path = <<Str(key)>>]

\* the issues of z.object({ x: z.number() }).strict() on an object: that of
\* the property x, then that of the keys the shape does not have
ZObjXIssues(node) ==
  LET at(key) == CHOOSE i \in DOMAIN node.keys : node.keys[i] = key
      has(key) == \E i \in DOMAIN node.keys : node.keys[i] = key
  IN  (IF ~has("x")
       THEN <<PropertyIssue("x", Issue("invalid_type", "Required", FALSE))>>
       ELSE IF node.vals[at("x")].t # "num"
       THEN <<PropertyIssue("x", InvalidType("number"))>>
       ELSE <<>>)
      \o (IF \E i \in DOMAIN node.keys : node.keys[i] # "x"
          THEN <<Issue("unrecognized_keys", "Unrecognized key(s) in object",
                       FALSE)>>
          ELSE <<>>)

\* z.object({ x: z.number() }).strict(): a validator whose issues can have a
\* path of their own and that can report two issues on one value. Its
\* output is a new object; the one object of the model it accepts is
\* {x: 1}, whose copy is CopiedObject.
ZObjX(h, x) ==
  IF ~IsPlainObject(h, x) THEN Failure(<<InvalidType("object")>>)
  ELSE IF ZObjXIssues(h[x.n]) # <<>> THEN Failure(ZObjXIssues(h[x.n]))
  ELSE Success(CopiedObject)

\* Schema.safeParse(x)
safeParse(h, V, x) ==
  CASE V = "ZString" -> ZString(x)
    [] V = "ZLower" -> ZLower(x)
    [] V = "ZEnumA" -> ZEnumA(x)
    [] V = "Json" -> Json(x)
    [] V = "NotCircular" -> NotCircular(h, x)
    [] V = "ZObjX" -> ZObjX(h, x)
    [] OTHER -> ZAny(x)

----------------------------------------------------------------------------
(* LooseArray, lines 37-81 *)

\* issue.path.unshift(segment) for each issue of a failed parse
Unshift(segment, iss) ==
  [i \in DOMAIN iss |-> [iss[i] EXCEPT !.path = <<segment>> \o @]]

LogCall(who, arg) == Append(calls, [who |-> who, arg |-> arg])

\* a variant that puts the parsed element at the front of the output
KeepParsedUnshift(out, parsed) ==
  IF parsed.ok THEN <<parsed.out[1]>> \o out ELSE out

\* if (parsed.success) output.push(parsed.data), lines 47-49 and 63-66
KeepParsed(out, parsed) ==
  IF parsed.ok THEN Append(out, parsed.out[1]) ELSE out

\* a variant that reports whether or not issues were collected
ShouldReportAlways(iss) == TRUE

\* if (issues.length), lines 74 and 200
ShouldReport(iss) == Len(iss) > 0

\* a variant that fails the parse with the collected issues
ReturnStrict(out, iss) ==
  IF Len(iss) > 0 THEN Failure(iss) ELSE Success(out)

\* return output, lines 51, 79, 169 and 205: the transform adds no issue of
\* its own, so the parse succeeds with the output
ReturnOutput(out, iss) == Success(out)

\* a variant that takes a non-array input for an empty array
LooseArrayBaseLenient ==
  /\ pc = "start"
  /\ schema.kind = "LooseArray"
  /\ IF IsArray(heap, input)
     THEN /\ pc' = "loop"
          /\ UNCHANGED result
     ELSE /\ pc' = "done"
          /\ result' = Success(<<>>)
  /\ UNCHANGED inflight
  /\ UNCHANGED gitlabVars
  /\ UNCHANGED <<schema, input, heap, idx, output, issues, onErrorCalls,
                 onErrorRet, calls, downstream>>

\* z.array(z.any()): a non-array input fails before the transform runs
LooseArrayBase ==
  /\ pc = "start"
  /\ schema.kind = "LooseArray"
  /\ IF IsArray(heap, input)
     THEN /\ pc' = "loop"
          /\ UNCHANGED result
     ELSE /\ pc' = "done"
          /\ result' = Failure(<<InvalidType("array")>>)
  /\ UNCHANGED inflight
  /\ UNCHANGED gitlabVars
  /\ UNCHANGED <<schema, input, heap, idx, output, issues, onErrorCalls,
                 onErrorRet, calls, downstream>>

\* one iteration of the loop of lines 45-50 (no onError)
LooseArrayStep ==
  /\ pc = "loop"
  /\ schema.kind = "LooseArray"
  /\ ~schema.hasOnError
  /\ idx < Len(heap[input.n].vals)
  /\ LET x == heap[input.n].vals[idx + 1]
         parsed == safeParse(heap, schema.Elem, x)
     IN  /\ calls' = LogCall("Elem", x)
         /\ output' = KeepParsed(output, parsed)
  /\ idx' = idx + 1
  /\ UNCHANGED inflight
  /\ UNCHANGED gitlabVars
  /\ UNCHANGED <<schema, input, heap, pc, issues, result, onErrorCalls,
                 onErrorRet, downstream>>

\* line 51
LooseArrayReturn ==
  /\ pc = "loop"
  /\ schema.kind = "LooseArray"
  /\ ~schema.hasOnError
  /\ idx = Len(heap[input.n].vals)
  /\ result' = ReturnOutput(output, issues)
  /\ pc' = "done"
  /\ UNCHANGED inflight
  /\ UNCHANGED gitlabVars
  /\ UNCHANGED <<schema, input, heap, idx, output, issues, onErrorCalls,
                 onErrorRet, calls, downstream>>

\* a variant that tags the issues of a failing element with the position the
\* element would have had in the output
LooseArrayStepOnErrorOutputIndex ==
  /\ pc = "loop"
  /\ schema.kind = "LooseArray"
  /\ schema.hasOnError
  /\ idx < Len(heap[input.n].vals)
  /\ LET x == heap[input.n].vals[idx + 1]
         parsed == safeParse(heap, schema.Elem, x)
     IN  /\ calls' = LogCall("Elem", x)
         /\ IF parsed.ok
            THEN /\ output' = KeepParsed(output, parsed)
                 /\ UNCHANGED issues
            ELSE /\ issues' = issues \o
                                Unshift(Num(Len(output)), parsed.issues)
                 /\ UNCHANGED output
  /\ idx' = idx + 1
  /\ UNCHANGED inflight
  /\ UNCHANGED gitlabVars
  /\ UNCHANGED <<schema, input, heap, pc, result, onErrorCalls, onErrorRet,
                 downstream>>

\* one iteration of the loop of lines 59-72 (with onError)
LooseArrayStepOnError ==
  /\ pc = "loop"
  /\ schema.kind = "LooseArray"
  /\ schema.hasOnError
  /\ idx < Len(heap[input.n].vals)
  /\ LET x == heap[input.n].vals[idx + 1]
         parsed == safeParse(heap, schema.Elem, x)
     IN  /\ calls' = LogCall("Elem", x)
         /\ IF parsed.ok
            THEN /\ output' = KeepParsed(output, parsed)
                 /\ UNCHANGED issues
            ELSE /\ issues' = issues \o Unshift(Num(idx), parsed.issues)
                 /\ UNCHANGED output
  /\ idx' = idx + 1
  /\ UNCHANGED inflight
  /\ UNCHANGED gitlabVars
  /\ UNCHANGED <<schema, input, heap, pc, result, onErrorCalls, onErrorRet,
                 downstream>>

\* the values an onError callback may return
CallbackReturns == {"undefined", "value"}

\* lines 74-79: onError is called when issues were collected, and the
\* output is returned whatever it returns
LooseArrayReturnOnError ==
  /\ pc = "loop"
  /\ schema.kind = "LooseArray"
  /\ schema.hasOnError
  /\ idx = Len(heap[input.n].vals)
  /\ IF ShouldReport(issues)
     THEN /\ onErrorCalls' = Append(onErrorCalls,
                                [error |-> issues, input |-> heap[input.n]])
          /\ onErrorRet' \in CallbackReturns
     ELSE UNCHANGED <<onErrorCalls, onErrorRet>>
  /\ result' = ReturnOutput(output, issues)
  /\ pc' = "done"
  /\ UNCHANGED inflight
  /\ UNCHANGED gitlabVars
  /\ UNCHANGED <<schema, input, heap, idx, output, issues, calls, downstream>>

----------------------------------------------------------------------------
(* LooseRecord, lines 130-207 *)

\* a variant that leaves a property that is already set as it is
SetPropertyOnce(obj, key, value) ==
  IF \E i \in DOMAIN obj : obj[i].k = key THEN obj
  ELSE Append(obj, [k |-> key, v |-> value])

\* output[key] = value on an object kept as a sequence of entries in
\* property order: an existing key keeps its place and takes the new value
SetProperty(obj, key, value) ==
  IF \E i \in DOMAIN obj : obj[i].k = key
  THEN [i \in DOMAIN obj |->
          IF obj[i].k = key THEN [k |-> key, v |-> value] ELSE obj[i]]
  ELSE Append(obj, [k |-> key, v |-> value])

\* a variant that keeps the entry under the key as it was in the input
EntryKeyRaw(inputKey, parsedKey) == inputKey.s

\* the property name of a kept entry: parsedKey.data, lines 166 and 196
EntryKey(inputKey, parsedKey) == parsedKey.out[1].s

\* z.record(z.any()): an input that is not a plain object fails before the
\* transform runs
\* a variant that tests typeof input === 'object', which an array passes
LooseRecordBaseTypeof ==
  /\ pc = "start"
  /\ schema.kind = "LooseRecord"
  /\ IF input.t = "ref"
     THEN /\ pc' = "loop"
          /\ UNCHANGED result
     ELSE /\ pc' = "done"
          /\ result' = Failure(<<InvalidType("object")>>)
  /\ UNCHANGED inflight
  /\ UNCHANGED gitlabVars
  /\ UNCHANGED <<schema, input, heap, idx, output, issues, onErrorCalls,
                 onErrorRet, calls, downstream>>

LooseRecordBase ==
  /\ pc = "start"
  /\ schema.kind = "LooseRecord"
  /\ IF IsPlainObject(heap, input)
     THEN /\ pc' = "loop"
          /\ UNCHANGED result
     ELSE /\ pc' = "done"
          /\ result' = Failure(<<InvalidType("object")>>)
  /\ UNCHANGED inflight
  /\ UNCHANGED gitlabVars
  /\ UNCHANGED <<schema, input, heap, idx, output, issues, onErrorCalls,
                 onErrorRet, calls, downstream>>

\* a variant of the loop without onError that keeps every entry whose value
\* validates, under the key it has in the input
LooseRecordStepValueOnly ==
  /\ pc = "loop"
  /\ schema.kind = "LooseRecord"
  /\ ~schema.hasOnError
  /\ idx < Len(heap[input.n].keys)
  /\ LET inputKey == Str(heap[input.n].keys[idx + 1])
         inputVal == heap[input.n].vals[idx + 1]
         parsedValue == safeParse(heap, schema.Value, inputVal)
     IN  /\ calls' = calls \o <<[who |-> "Key", arg |-> inputKey],
                                [who |-> "Value", arg |-> inputVal]>>
         /\ output' = IF parsedValue.ok
                      THEN SetProperty(output, inputKey.s, parsedValue.out[1])
                      ELSE output
  /\ idx' = idx + 1
  /\ UNCHANGED inflight
  /\ UNCHANGED gitlabVars
  /\ UNCHANGED <<schema, input, heap, pc, issues, result, onErrorCalls,
                 onErrorRet, downstream>>

\* one iteration of the loop of lines 162-168 (no onError): the key and the
\* value are both parsed, then the entry is kept if both succeeded
LooseRecordStep ==
  /\ pc = "loop"
  /\ schema.kind = "LooseRecord"
  /\ ~schema.hasOnError
  /\ idx < Len(heap[input.n].keys)
  /\ LET inputKey == Str(heap[input.n].keys[idx + 1])
         inputVal == heap[input.n].vals[idx + 1]
         parsedKey == safeParse(heap, schema.Key, inputKey)
         parsedValue == safeParse(heap, schema.Value, inputVal)
     IN  /\ calls' = calls \o <<[who |-> "Key", arg |-> inputKey],
                                [who |-> "Value", arg |-> inputVal]>>
         /\ output' = IF parsedKey.ok /\ parsedValue.ok
                      THEN SetProperty(output, EntryKey(inputKey, parsedKey),
                                       parsedValue.out[1])
                      ELSE output
  /\ idx' = idx + 1
  /\ UNCHANGED inflight
  /\ UNCHANGED gitlabVars
  /\ UNCHANGED <<schema, input, heap, pc, issues, result, onErrorCalls,
                 onErrorRet, downstream>>

\* line 169
LooseRecordReturn ==
  /\ pc = "loop"
  /\ schema.kind = "LooseRecord"
  /\ ~schema.hasOnError
  /\ idx = Len(heap[input.n].keys)
  /\ result' = ReturnOutput(output, issues)
  /\ pc' = "done"
  /\ UNCHANGED inflight
  /\ UNCHANGED gitlabVars
  /\ UNCHANGED <<schema, input, heap, idx, output, issues, onErrorCalls,
                 onErrorRet, calls, downstream>>

\* a variant that tags the issues of a failing value with the validated key
LooseRecordStepOnErrorParsedKey ==
  /\ pc = "loop"
  /\ schema.kind = "LooseRecord"
  /\ schema.hasOnError
  /\ idx < Len(heap[input.n].keys)
  /\ LET inputKey == Str(heap[input.n].keys[idx + 1])
         inputVal == heap[input.n].vals[idx + 1]
         parsedKey == safeParse(heap, schema.Key, inputKey)
         parsedValue == safeParse(heap, schema.Value, inputVal)
     IN  IF ~parsedKey.ok
         THEN /\ calls' = LogCall("Key", inputKey)
              /\ issues' = issues \o Unshift(inputKey, parsedKey.issues)
              /\ UNCHANGED output
         ELSE /\ calls' = calls \o <<[who |-> "Key", arg |-> inputKey],
                                     [who |-> "Value", arg |-> inputVal]>>
              /\ IF ~parsedValue.ok
                 THEN /\ issues' = issues \o
                                     Unshift(parsedKey.out[1],
                                             parsedValue.issues)
                      /\ UNCHANGED output
                 ELSE /\ output' = SetProperty(output,
                                               EntryKey(inputKey, parsedKey),
                                               parsedValue.out[1])
                      /\ UNCHANGED issues
  /\ idx' = idx + 1
  /\ UNCHANGED inflight
  /\ UNCHANGED gitlabVars
  /\ UNCHANGED <<schema, input, heap, pc, result, onErrorCalls, onErrorRet,
                 downstream>>

\* one iteration of the loop of lines 177-198 (with onError): a failed key
\* ends the iteration before the value is parsed
LooseRecordStepOnError ==
  /\ pc = "loop"
  /\ schema.kind = "LooseRecord"
  /\ schema.hasOnError
  /\ idx < Len(heap[input.n].keys)
  /\ LET inputKey == Str(heap[input.n].keys[idx + 1])
         inputVal == heap[input.n].vals[idx + 1]
         parsedKey == safeParse(heap, schema.Key, inputKey)
         parsedValue == safeParse(heap, schema.Value, inputVal)
     IN  IF ~parsedKey.ok
         THEN /\ calls' = LogCall("Key", inputKey)
              /\ issues' = issues \o Unshift(inputKey, parsedKey.issues)
              /\ UNCHANGED output
         ELSE /\ calls' = calls \o <<[who |-> "Key", arg |-> inputKey],
                                     [who |-> "Value", arg |-> inputVal]>>
              /\ IF ~parsedValue.ok
                 THEN /\ issues' = issues \o
                                     Unshift(inputKey, parsedValue.issues)
                      /\ UNCHANGED output
                 ELSE /\ output' = SetProperty(output, EntryKey(inputKey, parsedKey),
                                               parsedValue.out[1])
                      /\ UNCHANGED issues
  /\ idx' = idx + 1
  /\ UNCHANGED inflight
  /\ UNCHANGED gitlabVars
  /\ UNCHANGED <<schema, input, heap, pc, result, onErrorCalls, onErrorRet,
                 downstream>>

\* lines 200-205
LooseRecordReturnOnError ==
  /\ pc = "loop"
  /\ schema.kind = "LooseRecord"
  /\ schema.hasOnError
  /\ idx = Len(heap[input.n].keys)
  /\ IF ShouldReport(issues)
     THEN /\ onErrorCalls' = Append(onErrorCalls,
                                [error |-> issues, input |-> heap[input.n]])
          /\ onErrorRet' \in CallbackReturns
     ELSE UNCHANGED <<onErrorCalls, onErrorRet>>
  /\ result' = ReturnOutput(output, issues)
  /\ pc' = "done"
  /\ UNCHANGED inflight
  /\ UNCHANGED gitlabVars
  /\ UNCHANGED <<schema, input, heap, idx, output, issues, calls, downstream>>

----------------------------------------------------------------------------
(* A validate call of NotCircular, alone or followed by another effect, and
   of a text-format validator *)

NotCircularValidate ==
  /\ pc = "start"
  /\ schema.kind = "NotCircular"
  /\ LET r == NotCircularParse(heap, input)
     IN  downstream' = IF DownstreamRuns(schema.after, r.status)
                       THEN Append(downstream, schema.after)
                       ELSE downstream
  /\ result' = NotCircular(heap, input)
  /\ pc' = "done"
  /\ UNCHANGED inflight
  /\ UNCHANGED gitlabVars
  /\ UNCHANGED <<schema, input, heap, idx, output, issues, onErrorCalls,
                 onErrorRet, calls>>

FormatValidate ==
  /\ pc = "start"
  /\ schema.kind \in Formats
  /\ IF input.t = "str"
     THEN \E outcome \in ParserOutcomes(schema.kind, input.s) :
            /\ calls' = LogCall("parser", [threw |-> outcome.threw,
                                           value |-> outcome.value])
            /\ IF FormatParse(schema.kind, input, outcome).status = "thrown"
               THEN pc' = "thrown" /\ UNCHANGED result
               ELSE /\ pc' = "done"
                    /\ result' = FormatResult(schema.kind, input, outcome)
     ELSE /\ result' = FormatResult(schema.kind, input, Threw)
          /\ pc' = "done"
          /\ UNCHANGED calls
  /\ UNCHANGED inflight
  /\ UNCHANGED gitlabVars
  /\ UNCHANGED <<schema, input, heap, idx, output, issues, onErrorCalls,
                 onErrorRet, downstream>>

UtcDateValidate ==
  /\ pc = "start"
  /\ schema.kind = "UtcDate"
  /\ calls' = IF input.t = "str"
              THEN LogCall("fromISO", [threw |-> FALSE,
                                      value |-> UtcDateFromISO(input.s)])
              ELSE calls
  /\ result' = UtcDate(input)
  /\ pc' = "done"
  /\ UNCHANGED inflight
  /\ UNCHANGED gitlabVars
  /\ UNCHANGED <<schema, input, heap, idx, output, issues, onErrorCalls,
                 onErrorRet, downstream>>

----------------------------------------------------------------------------
(* withDebugMessage and withTraceMessage, lines 302-320: the callback each
   returns, invoked with an error context. For such a callback `issues` is
   the error of the context, `idx` counts the invocations made before and
   `output` holds what the last invocation returned. *)

SinkKinds == {"withDebugMessage", "withTraceMessage"}

\* a variant in which both callbacks log at debug level
SinkLoggerDebug(kind) == "logger.debug"

\* logger.debug (line 307) or logger.trace (line 317)
SinkLogger(kind) ==
  IF kind = "withDebugMessage" THEN "logger.debug" ELSE "logger.trace"

\* ({ error: err }) => { logger.debug({ err }, msg); return value; }
SinkInvoke ==
  /\ pc = "start"
  /\ schema.kind \in SinkKinds
  /\ calls' = LogCall(SinkLogger(schema.kind),
                      [err |-> issues, msg |-> schema.msg])
  /\ output' = <<schema.value>>
  /\ pc' = "done"
  /\ UNCHANGED inflight
  /\ UNCHANGED gitlabVars
  /\ UNCHANGED <<schema, input, heap, idx, issues, result, onErrorCalls,
                 onErrorRet, downstream>>

\* the errors a callback is invoked with
SinkErrors ==
  {<<InvalidType("array")>>,
   <<Issue("custom", "Invalid JSON", FALSE)>>,
   <<InvalidType("string"), Issue("custom", "Invalid date", FALSE)>>}

\* the owner of the callback invokes it again, with another error
SinkInvokeAgain ==
  /\ pc = "done"
  /\ schema.kind \in SinkKinds
  /\ idx + 1 < MaxLen
  /\ idx' = idx + 1
  /\ issues' \in SinkErrors
  /\ pc' = "start"
  /\ UNCHANGED inflight
  /\ UNCHANGED gitlabVars
  /\ UNCHANGED <<schema, input, heap, output, result, onErrorCalls,
                 onErrorRet, calls, downstream>>

----------------------------------------------------------------------------
(* The arguments of a LooseRecord call, lines 130-157 *)

\* a validator instance, and an options object with or without onError
SchemaArg(name) == [isZodType |-> TRUE, name |-> name, hasOnError |-> FALSE]
OptsArg(hasOnError) ==
  [isZodType |-> FALSE, name |-> "-", hasOnError |-> hasOnError]

\* a variant that takes the second argument for options when it has an
\* onError property, and for a validator otherwise
LooseRecordArgsByProperty(args) ==
  IF Len(args) >= 3
  THEN [Key |-> args[1].name, Value |-> args[2].name, opts |-> args[3]]
  ELSE IF Len(args) >= 2
  THEN IF ~args[2].hasOnError
       THEN [Key |-> args[1].name, Value |-> args[2].name,
             opts |-> OptsArg(FALSE)]
       ELSE [Key |-> "ZAny", Value |-> args[1].name, opts |-> args[2]]
  ELSE [Key |-> "ZAny", Value |-> args[1].name, opts |-> OptsArg(FALSE)]

\* Key, Value and opts after lines 138-155; an argument that is not passed
\* is undefined, every argument that is passed is an object and so truthy
LooseRecordArgs(args) ==
  IF Len(args) >= 2 /\ Len(args) >= 3
  THEN [Key |-> args[1].name, Value |-> args[2].name, opts |-> args[3]]
  ELSE IF Len(args) >= 2
  THEN IF args[2].isZodType
       THEN [Key |-> args[1].name, Value |-> args[2].name,
             opts |-> OptsArg(FALSE)]
       ELSE [Key |-> "ZAny", Value |-> args[1].name, opts |-> args[2]]
  ELSE [Key |-> "ZAny", Value |-> args[1].name, opts |-> OptsArg(FALSE)]

\* the validator LooseRecord(...args) returns: const { onError } = opts
LooseRecord(args) ==
  LET r == LooseRecordArgs(args)
  IN  [kind |-> "LooseRecord", Elem |-> "-", Key |-> r.Key,
       Value |-> r.Value, hasOnError |-> r.opts.hasOnError,
       after |-> "none", args |-> args]

----------------------------------------------------------------------------
(* Inputs *)

SeqsUpTo(S, n) == UNION {[1..k -> S] : k \in 0..n}

NoResult == [ok |-> FALSE, out |-> <<>>, issues |-> <<>>]

\* the state of a validate call that has not started
Fresh ==
  /\ pc = "start"
  /\ idx = 0
  /\ output = <<>>
  /\ issues = <<>>
  /\ result = NoResult
  /\ onErrorCalls = <<>>
  /\ onErrorRet = "none"
  /\ calls = <<>>
  /\ downstream = <<>>
  /\ inflight = <<>>
  /\ GitlabIdle

ElemAtoms ==
  {Num(1), Str("a"), Str("1"), Str("{\"x\":1}"), CyclicObject, PlainObject}
ElemSchemas == {"ZString", "Json", "NotCircular", "ZObjX"}

RecordKeys == {"a", "A", "b"}
RecordValues == {Num(1), Str("a"), Str("1"), CyclicObject}
KeySchemas == {"ZAny", "ZLower", "ZEnumA"}

Scalars == {Null, Num(1), Str("a")}

Distinct(ks) == \A i, j \in DOMAIN ks : i # j => ks[i] # ks[j]

InitLooseArray ==
  /\ schema \in [kind : {"LooseArray"}, Elem : ElemSchemas, Key : {"-"},
                 Value : {"-"}, hasOnError : BOOLEAN, after : {"none"}]
  /\ \/ /\ input = InputRef
        /\ \E items \in SeqsUpTo(ElemAtoms, MaxLen) :
             heap = FixedHeap(ArrNode(items))
     \/ /\ input \in Scalars \cup {PlainObject}
        /\ heap = FixedHeap(ArrNode(<<>>))
  /\ Fresh

\* the calls of LooseRecord the four overloads allow (lines 108-129); the
\* options of the two-argument form may have no onError
LooseRecordCalls ==
  LET Explicit == KeySchemas \ {"ZAny"}
  IN  {<<SchemaArg(v)>> : v \in ElemSchemas}
      \cup {<<SchemaArg(v), OptsArg(b)>> : v \in ElemSchemas, b \in BOOLEAN}
      \cup {<<SchemaArg(k), SchemaArg(v)>> : k \in Explicit, v \in ElemSchemas}
      \cup {<<SchemaArg(k), SchemaArg(v), OptsArg(TRUE)>> :
               k \in Explicit, v \in ElemSchemas}

\* the mapping {a: '{"x":1}', b: 'not json'}
ExampleRecord ==
  ObjNode(<<"a", "b">>, <<Str("{\"x\":1}"), Str("not json")>>)

InitLooseRecord ==
  \/ /\ \E args \in LooseRecordCalls : schema = LooseRecord(args)
     /\ \/ /\ input = InputRef
           /\ \E ks \in {k \in SeqsUpTo(RecordKeys, MaxLen) : Distinct(k)} :
                \E vs \in [1..Len(ks) -> RecordValues] :
                  heap = FixedHeap(ObjNode(ks, vs))
        \/ /\ input \in Scalars \cup {ListArray}
           /\ heap = FixedHeap(ObjNode(<<>>, <<>>))
     /\ Fresh
  \/ /\ schema = LooseRecord(<<SchemaArg("ZString"), SchemaArg("Json"),
                                OptsArg(TRUE)>>)
     /\ input = InputRef
     /\ heap = FixedHeap(ExampleRecord)
     /\ Fresh

InitNotCircular ==
  /\ schema \in [kind : {"NotCircular"}, Elem : {"-"}, Key : {"-"},
                 Value : {"-"}, hasOnError : {FALSE},
                 after : {"none", "refine", "transform", "pipe"}]
  /\ input \in Scalars \cup {InputRef, CyclicObject, PlainObject, ListArray}
  /\ \E node \in {ArrNode(<<>>), ArrNode(<<InputRef>>),
                  ArrNode(<<PlainObject, PlainObject>>),
                  ObjNode(<<"a", "b">>, <<ListArray, CyclicObject>>)} :
       heap = FixedHeap(node)
  /\ Fresh

InitFormat ==
  /\ schema \in [kind : Formats, Elem : {"-"}, Key : {"-"}, Value : {"-"},
                 hasOnError : {FALSE}, after : {"none"}]
  /\ input \in {Str("1"), Str("null"), Str("\"a\""), Str("{"),
                Str("{\"x\":1}"), Num(1), Null, PlainObject}
  /\ heap = FixedHeap(ArrNode(<<>>))
  /\ Fresh

DateTexts ==
  {"2024-03-01T00:00:00Z", "2024-03-01T00:00:00",
   "2024-03-01T02:00:00+02:00", "2024-02-29T12:00:00",
   "2023-02-29T12:00:00", "2024-02-30T00:00:00Z", "2024-13-01T00:00:00Z",
   "2024-03-01T25:00:00", "not-a-date", ""}

InitUtcDate ==
  /\ schema \in [kind : {"UtcDate"}, Elem : {"-"}, Key : {"-"},
                 Value : {"-"}, hasOnError : {FALSE}, after : {"none"}]
  /\ input \in {Str(text) : text \in DateTexts} \cup Scalars
                \cup {PlainObject}
  /\ heap = FixedHeap(ArrNode(<<>>))
  /\ Fresh

InitSink ==
  /\ schema \in [kind : SinkKinds, Elem : {"-"}, Key : {"-"}, Value : {"-"},
                 hasOnError : {FALSE}, after : {"none"},
                 value : {Null, Str("a"), PlainObject, ListArray},
                 msg : {"m1", "m2"}]
  /\ input \in {Num(1), PlainObject}
  /\ heap = FixedHeap(ArrNode(<<>>))
  /\ pc = "start"
  /\ idx = 0
  /\ output = <<>>
  /\ issues \in SinkErrors
  /\ result = NoResult
  /\ onErrorCalls = <<>>
  /\ onErrorRet = "none"
  /\ calls = <<>>
  /\ downstream = <<>>
  /\ inflight = <<>>
  /\ GitlabIdle

Init ==
  \/ InitLooseArray
  \/ InitLooseRecord
  \/ InitNotCircular
  \/ InitFormat
  \/ InitUtcDate
  \/ InitSink

Next ==
  \/ LooseArrayBase
  \/ LooseArrayStep
  \/ LooseArrayReturn
  \/ LooseArrayStepOnError
  \/ LooseArrayReturnOnError
  \/ LooseRecordBase
  \/ LooseRecordStep
  \/ LooseRecordReturn
  \/ LooseRecordStepOnError
  \/ LooseRecordReturnOnError
  \/ NotCircularValidate
  \/ FormatValidate
  \/ UtcDateValidate
  \/ SinkInvoke
  \/ SinkInvokeAgain

Spec == Init /\ [][Next]_vars

----------------------------------------------------------------------------
(* Two validate calls on one LooseArray or LooseRecord instance. The
   instance is `schema`; `output` and `issues` are declared inside the
   transform callback (lines 44, 56-57, 161, 174-175), so each call has its
   own, kept in inflight[c]. The steps of the two calls are taken in any
   order, which covers one call after the other and a call made while the
   other is in progress. *)

CallIds == {1, 2}

SecondInput == Ref(7)    \* the array or object given to the second call

ReuseHeap(node1, node2) ==
  [i \in DOMAIN FixedHeap(node1) \cup {SecondInput.n} |->
     IF i = SecondInput.n THEN node2 ELSE FixedHeap(node1)[i]]

\* the locals of a call that has not started
NewCall(x) ==
  [input |-> x, pc |-> "start", idx |-> 0, output |-> <<>>,
   issues |-> <<>>, result |-> NoResult, payloads |-> <<>>]

\* one iteration of the loop of LooseArray, lines 45-50 and 59-72
ArrayIteration(h, sch, node, loc) ==
  LET x == node.vals[loc.idx + 1]
      parsed == safeParse(h, sch.Elem, x)
  IN  IF parsed.ok
      THEN [loc EXCEPT !.output = KeepParsed(@, parsed), !.idx = @ + 1]
      ELSE IF sch.hasOnError
      THEN [loc EXCEPT !.issues = @ \o Unshift(Num(loc.idx), parsed.issues),
                       !.idx = @ + 1]
      ELSE [loc EXCEPT !.idx = @ + 1]

\* one iteration of the loop of LooseRecord, lines 162-168 and 177-198
RecordIteration(h, sch, node, loc) ==
  LET inputKey == Str(node.keys[loc.idx + 1])
      inputVal == node.vals[loc.idx + 1]
      parsedKey == safeParse(h, sch.Key, inputKey)
      parsedValue == safeParse(h, sch.Value, inputVal)
  IN  IF parsedKey.ok /\ parsedValue.ok
      THEN [loc EXCEPT !.output = SetProperty(@, EntryKey(inputKey, parsedKey),
                                              parsedValue.out[1]),
                       !.idx = @ + 1]
      ELSE IF ~sch.hasOnError THEN [loc EXCEPT !.idx = @ + 1]
      ELSE IF ~parsedKey.ok
      THEN [loc EXCEPT !.issues = @ \o Unshift(inputKey, parsedKey.issues),
                       !.idx = @ + 1]
      ELSE [loc EXCEPT !.issues = @ \o Unshift(inputKey, parsedValue.issues),
                       !.idx = @ + 1]

Iteration(h, sch, node, loc) ==
  IF sch.kind = "LooseArray" THEN ArrayIteration(h, sch, node, loc)
  ELSE RecordIteration(h, sch, node, loc)

\* lines 51, 74-79, 169 and 200-205
CallReturned(sch, node, loc) ==
  [loc EXCEPT !.pc = "done",
              !.result = ReturnOutput(loc.output, loc.issues),
              !.payloads = IF sch.hasOnError /\ ShouldReport(loc.issues)
                           THEN <<[error |-> loc.issues, input |-> node]>>
                           ELSE <<>>]

\* z.array(z.any()) and z.record(z.any()) on the input of a call
CallBased(h, sch, loc) ==
  IF \/ sch.kind = "LooseArray" /\ IsArray(h, loc.input)
     \/ sch.kind = "LooseRecord" /\ IsPlainObject(h, loc.input)
  THEN [loc EXCEPT !.pc = "loop"]
  ELSE [loc EXCEPT !.pc = "done",
                   !.result = Failure(<<InvalidType(
                                IF sch.kind = "LooseArray" THEN "array"
                                ELSE "object")>>)]

\* a variant in which `issues` is declared once for the instance, outside
\* the transform callback
StoreLocalsSharedIssues(st, c, loc) ==
  [d \in DOMAIN st |->
     IF d = c THEN loc ELSE [st[d] EXCEPT !.issues = loc.issues]]

\* the locals belong to the invocation of the callback that declared them
StoreLocals(st, c, loc) == [st EXCEPT ![c] = loc]

CallBase(c) ==
  /\ inflight[c].pc = "start"
  /\ inflight' = StoreLocals(inflight, c, CallBased(heap, schema, inflight[c]))
  /\ UNCHANGED gitlabVars
  /\ UNCHANGED <<schema, input, heap, pc, idx, output, issues, result,
                 onErrorCalls, onErrorRet, calls, downstream>>

CallStep(c) ==
  /\ inflight[c].pc = "loop"
  /\ inflight[c].idx < Len(heap[inflight[c].input.n].vals)
  /\ inflight' = StoreLocals(inflight, c,
                   Iteration(heap, schema, heap[inflight[c].input.n],
                             inflight[c]))
  /\ UNCHANGED gitlabVars
  /\ UNCHANGED <<schema, input, heap, pc, idx, output, issues, result,
                 onErrorCalls, onErrorRet, calls, downstream>>

CallReturn(c) ==
  /\ inflight[c].pc = "loop"
  /\ inflight[c].idx = Len(heap[inflight[c].input.n].vals)
  /\ inflight' = StoreLocals(inflight, c,
                   CallReturned(schema, heap[inflight[c].input.n], inflight[c]))
  /\ UNCHANGED gitlabVars
  /\ UNCHANGED <<schema, input, heap, pc, idx, output, issues, result,
                 onErrorCalls, onErrorRet, calls, downstream>>

\* the locals of the transform callback of sch on the input x after k
\* iterations, and the whole validate call
RECURSIVE Looped(_, _, _, _)
Looped(h, sch, x, k) ==
  IF k = 0 THEN CallBased(h, sch, NewCall(x))
  ELSE Iteration(h, sch, h[x.n], Looped(h, sch, x, k - 1))

Validated(h, sch, x) ==
  LET based == CallBased(h, sch, NewCall(x))
  IN  IF based.pc = "done" THEN based
      ELSE CallReturned(sch, h[x.n], Looped(h, sch, x, Len(h[x.n].vals)))

ReuseAtoms == {Str("a"), Num(1), PlainObject}
ReuseKeys == {"a", "b"}
ReuseValues == {Str("a"), Num(1)}

ReuseInstances ==
  [kind : {"LooseArray"}, Elem : {"ZString", "ZObjX"}, Key : {"-"},
   Value : {"-"}, hasOnError : BOOLEAN, after : {"none"}]
  \cup {LooseRecord(<<SchemaArg("ZEnumA"), SchemaArg("ZString"),
                      OptsArg(TRUE)>>),
        LooseRecord(<<SchemaArg("ZLower"), SchemaArg("ZString")>>)}

\* the collections a call is made on
ReuseNodes(sch) ==
  IF sch.kind = "LooseArray"
  THEN {ArrNode(items) : items \in SeqsUpTo(ReuseAtoms, MaxCallLen)}
  ELSE UNION {{ObjNode(ks, vs) : vs \in [1..Len(ks) -> ReuseValues]} :
                ks \in {k \in SeqsUpTo(ReuseKeys, MaxCallLen) : Distinct(k)}}

InitReuse ==
  /\ schema \in ReuseInstances
  /\ \E node1, node2 \in ReuseNodes(schema) : heap = ReuseHeap(node1, node2)
  /\ \E x1 \in {InputRef, Num(1)}, x2 \in {SecondInput, Num(1)} :
       inflight = [c \in CallIds |-> NewCall(IF c = 1 THEN x1 ELSE x2)]
  /\ input = Null
  /\ pc = "idle"
  /\ idx = 0
  /\ output = <<>>
  /\ issues = <<>>
  /\ result = NoResult
  /\ onErrorCalls = <<>>
  /\ onErrorRet = "none"
  /\ calls = <<>>
  /\ downstream = <<>>
  /\ GitlabIdle

NextReuse == \E c \in CallIds : CallBase(c) \/ CallStep(c) \/ CallReturn(c)

SpecReuse == InitReuse /\ [][NextReuse]_vars

----------------------------------------------------------------------------
(* lib/modules/platform/gitlab/index.ts: getBranchStatus, lines 478-564 *)

\* the schema utilities are not in use
SchemaIdle ==
  /\ schema = <<>>
  /\ input = Null
  /\ heap = <<>>
  /\ pc = "idle"
  /\ idx = 0
  /\ output = <<>>
  /\ issues = <<>>
  /\ result = NoResult
  /\ onErrorCalls = <<>>
  /\ onErrorRet = "none"
  /\ calls = <<>>
  /\ downstream = <<>>
  /\ inflight = <<>>

\* lines 478-489; a status the table does not have maps to undefined
gitlabToRenovateStatusMapping(status) ==
  CASE status \in {"pending", "created", "manual", "running",
                   "waiting_for_resource", "scheduled"} -> "yellow"
    [] status = "success" -> "green"
    [] status \in {"failed", "canceled", "skipped"} -> "red"
    [] OTHER -> "undefined"

\* a variant of the loop body in which the last check that is not green
\* gives the status
CheckStatusLastWins(status, check) ==
  LET mapped == gitlabToRenovateStatusMapping(check.status)
      mappedStatus == IF mapped = "undefined" THEN "yellow" ELSE mapped
  IN  IF mappedStatus # "green" THEN mappedStatus ELSE status

\* the body of the forEach of lines 545-562: if red, stay red
CheckStatus(status, check) ==
  IF status # "red"
  THEN LET mapped == gitlabToRenovateStatusMapping(check.status)
           mappedStatus == IF mapped = "undefined" THEN "yellow" ELSE mapped
       IN  IF mappedStatus # "green" THEN mappedStatus ELSE status
  ELSE status

\* res.filter((check) => !check.allow_failure).forEach(...) from `status`
RECURSIVE ForEachCheck(_, _, _)
ForEachCheck(checks, i, status) ==
  IF i > Len(checks) THEN status
  ELSE ForEachCheck(checks, i + 1, CheckStatus(status, checks[i]))

\* check.name?.startsWith('renovate/')
IsInternal(check) == check.name \in {"renovate/stability-days"}

\* lines 512-520: the status of the head pipeline of the merge request is
\* added when the pipeline ran on another sha
WithHeadPipeline(branchStatuses, mr) ==
  IF mr.present /\ mr.sha # mr.headPipelineSha /\ mr.headPipelineStatus # ""
  THEN Append(branchStatuses,
              [status |-> mr.headPipelineStatus, name |-> "head_pipeline",
               allow_failure |-> FALSE])
  ELSE branchStatuses

\* lines 521-563, on the array getStatus returned
CombinedStatus(branchStatuses, internalChecksAsSuccess) ==
  LET res == SelectSeq(branchStatuses, LAMBDA check : check.status # "skipped")
  IN  IF Len(res) = 0 THEN "yellow"
      ELSE IF /\ ~internalChecksAsSuccess
              /\ \A i \in DOMAIN branchStatuses :
                   /\ IsInternal(branchStatuses[i])
                   /\ gitlabToRenovateStatusMapping(branchStatuses[i].status)
                        = "green"
      THEN "yellow"
      ELSE ForEachCheck(SelectSeq(res, LAMBDA check : ~check.allow_failure),
                        1, "green")

\* getBranchStatus(branchName, internalChecksAsSuccess): a missing branch
\* and a failed request throw, a body that is not an array gives yellow
GetBranchStatus ==
  /\ gpc = "start"
  /\ params.op = "getBranchStatus"
  /\ IF ~params.branchExists
     THEN ret' = "throw" /\ UNCHANGED api
     ELSE /\ api' = Append(api, [request |-> "GET statuses",
                                 outcome |-> platform.statuses.outcome])
          /\ ret' = CASE platform.statuses.outcome = "throw" -> "throw"
                      [] platform.statuses.outcome = "not array" -> "yellow"
                      [] OTHER ->
                           CombinedStatus(
                             WithHeadPipeline(platform.statuses.body,
                                              platform.mr),
                             params.internalChecksAsSuccess)
  /\ gpc' = "done"
  /\ UNCHANGED <<config, platform, params, attempt>>
  /\ UNCHANGED schemaVars

CheckStatuses ==
  {"success", "failed", "canceled", "skipped", "pending", "preparing"}

Checks ==
  [status : CheckStatuses, name : {"renovate/stability-days", "ci"},
   allow_failure : BOOLEAN]

NoMr == [present |-> FALSE, sha |-> "", headPipelineSha |-> "",
         headPipelineStatus |-> ""]

MergeRequests ==
  {NoMr}
  \cup [present : {TRUE}, sha : {"s1"}, headPipelineSha : {"s1", "s2"},
        headPipelineStatus : {"", "success", "failed"}]

InitBranchStatus ==
  /\ params \in [op : {"getBranchStatus"}, branchExists : BOOLEAN,
                 internalChecksAsSuccess : BOOLEAN]
  /\ \/ /\ params.branchExists
        /\ \E body \in SeqsUpTo(Checks, MaxChecks), mr \in MergeRequests :
             platform = [statuses |-> [outcome |-> "ok", body |-> body],
                         mr |-> mr]
     \/ \E outcome \in {"throw", "not array"} :
          platform = [statuses |-> [outcome |-> outcome, body |-> <<>>],
                      mr |-> NoMr]
  /\ config = <<>>
  /\ gpc = "start"
  /\ attempt = 0
  /\ api = <<>>
  /\ ret = "none"
  /\ SchemaIdle

SpecBranchStatus == InitBranchStatus /\ [][GetBranchStatus]_vars

----------------------------------------------------------------------------
(* lib/modules/platform/gitlab/index.ts: tryPrAutomerge, lines 629-720 *)

desiredDetailedMergeStatus == {"mergeable", "ci_still_running", "not_approved"}
desiredPipelineStatus == {"failed", "running"}
desiredStatus == "can_be_merged"

\* lines 674-681: detailed_merge_status is used when the body has it ("" is
\* a body without the field), the deprecated merge_status otherwise
MergeStatusCheck(body) ==
  LET use_detailed_merge_status == body.detailed_merge_status # ""
      detailed_merge_status_check ==
        /\ use_detailed_merge_status
        /\ body.detailed_merge_status \in desiredDetailedMergeStatus
      deprecated_merge_status_check ==
        /\ ~use_detailed_merge_status
        /\ body.merge_status = desiredStatus
  IN  detailed_merge_status_check \/ deprecated_merge_status_check

\* the condition of lines 684-688: "break", "continue", or "TypeError" when
\* the status check passes and the body has no pipeline field to read
PollOutcome(body) ==
  IF ~MergeStatusCheck(body) THEN "continue"
  ELSE IF body.pipeline = "null" THEN "continue"
  ELSE IF body.pipeline = "undefined" THEN "TypeError"
  ELSE IF body.pipeline \in desiredPipelineStatus THEN "break"
  ELSE "continue"

NoBody == [detailed_merge_status |-> "", merge_status |-> "", pipeline |-> "null"]

\* what a GET of the merge request can do: throw, or return a body
GetResponses ==
  {[outcome |-> "throw", body |-> NoBody]}
  \cup [outcome : {"ok"},
        body : [detailed_merge_status : {"", "mergeable", "checking"},
                merge_status : {"can_be_merged", "cannot_be_merged"},
                pipeline : {"null", "undefined", "running", "success"}]]

\* lines 633-637: ignoreApprovals catches whatever its requests throw
AutomergeStart ==
  /\ gpc = "start"
  /\ params.op = "tryPrAutomerge"
  /\ api' = IF params.gitLabIgnoreApprovals
            THEN Append(api, [request |-> "ignoreApprovals",
                              response |-> [outcome |-> "ok", body |-> NoBody]])
            ELSE api
  /\ IF params.usePlatformAutomerge
     THEN gpc' = "poll" /\ attempt' = 1 /\ UNCHANGED ret
     ELSE gpc' = "done" /\ attempt' = 0 /\ ret' = "returned"
  /\ UNCHANGED <<config, platform, params>>
  /\ UNCHANGED schemaVars

\* a variant of the poll without the break of line 689
AutomergePollNoBreak ==
  /\ gpc = "poll"
  /\ attempt <= params.retryTimes
  /\ \E response \in GetResponses :
       /\ api' = Append(api, [request |-> "GET", response |-> response])
       /\ IF response.outcome = "throw"
          THEN gpc' = "done" /\ attempt' = 0 /\ ret' = "returned"
          ELSE gpc' = "poll" /\ attempt' = attempt + 1 /\ UNCHANGED ret
  /\ UNCHANGED <<config, platform, params>>
  /\ UNCHANGED schemaVars

\* one turn of the loop of lines 663-692: a GET that throws, or a body
\* without a pipeline field, lands in the catch of line 717
AutomergePoll ==
  /\ gpc = "poll"
  /\ attempt <= params.retryTimes
  /\ \E response \in GetResponses :
       /\ api' = Append(api, [request |-> "GET", response |-> response])
       /\ IF response.outcome = "throw"
          THEN gpc' = "done" /\ attempt' = 0 /\ ret' = "returned"
          ELSE CASE PollOutcome(response.body) = "break" ->
                      gpc' = "put" /\ attempt' = 1 /\ UNCHANGED ret
                 [] PollOutcome(response.body) = "TypeError" ->
                      gpc' = "done" /\ attempt' = 0 /\ ret' = "returned"
                 [] OTHER ->
                      gpc' = "poll" /\ attempt' = attempt + 1 /\ UNCHANGED ret
  /\ UNCHANGED <<config, platform, params>>
  /\ UNCHANGED schemaVars

\* the loop of lines 663-692 ends after retryTimes turns
AutomergePollExhausted ==
  /\ gpc = "poll"
  /\ attempt > params.retryTimes
  /\ gpc' = "put"
  /\ attempt' = 1
  /\ UNCHANGED <<config, platform, params, api, ret>>
  /\ UNCHANGED schemaVars

\* one turn of the loop of lines 696-715: the catch of line 708 keeps a
\* failed PUT inside the loop
AutomergePut ==
  /\ gpc = "put"
  /\ attempt <= params.retryTimes
  /\ \E outcome \in {"ok", "throw"} :
       /\ api' = Append(api, [request |-> "PUT",
                              response |-> [outcome |-> outcome,
                                            body |-> NoBody]])
       /\ IF outcome = "ok"
          THEN gpc' = "done" /\ attempt' = 0 /\ ret' = "returned"
          ELSE gpc' = "put" /\ attempt' = attempt + 1 /\ UNCHANGED ret
  /\ UNCHANGED <<config, platform, params>>
  /\ UNCHANGED schemaVars

\* the loop of lines 696-715 ends after retryTimes turns
AutomergePutExhausted ==
  /\ gpc = "put"
  /\ attempt > params.retryTimes
  /\ gpc' = "done"
  /\ attempt' = 0
  /\ ret' = "returned"
  /\ UNCHANGED <<config, platform, params, api>>
  /\ UNCHANGED schemaVars

InitAutomerge ==
  /\ params \in [op : {"tryPrAutomerge"}, gitLabIgnoreApprovals : BOOLEAN,
                 usePlatformAutomerge : BOOLEAN, retryTimes : 0..MaxRetry]
  /\ platform = <<>>
  /\ config = <<>>
  /\ gpc = "start"
  /\ attempt = 0
  /\ api = <<>>
  /\ ret = "none"
  /\ SchemaIdle

NextAutomerge ==
  \/ AutomergeStart
  \/ AutomergePoll
  \/ AutomergePollExhausted
  \/ AutomergePut
  \/ AutomergePutExhausted

\* every awaited request settles and every delay elapses
SpecAutomerge ==
  InitAutomerge /\ [][NextAutomerge]_vars /\ WF_vars(NextAutomerge)

----------------------------------------------------------------------------
(* lib/modules/platform/gitlab/index.ts: the issue list, lines 324-337,
   1069-1097 and 1142-1214.  Calls are awaited one after the other. *)

\* config.issueList: undefined, or the array of the last fetch
NoList == [defined |-> FALSE, list |-> <<>>]

NoIssue == [iid |-> 0, title |-> ""]

Titles == {"t1", "t2"}
Descriptions == {"d1", "d2"}

\* the issues of the project, the iid of an issue being its position
ProjectIssue == [title : Titles, description : Descriptions, open : BOOLEAN]

\* the body of a GET of the issues with state=opened, mapped as in lines
\* 1090-1094
OpenIssues(plat) ==
  LET all == [i \in DOMAIN plat.issues |->
                [iid |-> i, title |-> plat.issues[i].title,
                 open |-> plat.issues[i].open]]
      opened == SelectSeq(all, LAMBDA i : i.open)
  IN  [k \in DOMAIN opened |->
         [iid |-> opened[k].iid, title |-> opened[k].title]]

\* getIssueList(), lines 1069-1097, with the outcome of its request: the
\* new config, what is returned or thrown, and the requests sent
getIssueList(cfg, plat, outcome) ==
  IF cfg.issueList.defined
  THEN [config |-> cfg, status |-> "list", list |-> cfg.issueList.list,
        requests |-> <<>>]
  ELSE CASE outcome = "throw" ->
              [config |-> cfg, status |-> "throw", list |-> <<>>,
               requests |-> <<"GET issues">>]
         [] outcome = "not array" ->
              [config |-> cfg, status |-> "list", list |-> <<>>,
               requests |-> <<"GET issues">>]
         [] OTHER ->
              [config |-> [cfg EXCEPT !.issueList =
                             [defined |-> TRUE, list |-> OpenIssues(plat)]],
               status |-> "list", list |-> OpenIssues(plat),
               requests |-> <<"GET issues">>]

\* issueList.find((i) => i.title === title)
Find(list, title) ==
  IF \E k \in DOMAIN list : list[k].title = title
  THEN list[CHOOSE k \in DOMAIN list :
              /\ list[k].title = title
              /\ \A j \in DOMAIN list : list[j].title = title => k <= j]
  ELSE NoIssue

\* a variant of line 1188 that keeps the list after an issue is created
DeleteIssueListKeeps(cfg) == cfg

\* delete config.issueList, line 1188
DeleteIssueList(cfg) == [cfg EXCEPT !.issueList = NoList]

\* ensureIssue({title, reuseTitle, body}), lines 1142-1198; o gives the
\* outcome of each request, and a project with MaxIssues issues refuses
\* another one
ensureIssue(cfg, plat, title, reuseTitle, description, o) ==
  LET g == getIssueList(cfg, plat, o.list)
      byTitle == Find(g.list, title)
      issue == IF byTitle.iid # 0 THEN byTitle ELSE Find(g.list, reuseTitle)
      null(requests) == [config |-> g.config, platform |-> plat,
                         status |-> "null", requests |-> requests]
  IN  IF g.status = "throw" THEN null(g.requests)
      ELSE IF issue.iid # 0
      THEN IF o.get = "throw" THEN null(Append(g.requests, "GET issue"))
           ELSE IF \/ issue.title # title
                   \/ plat.issues[issue.iid].description # description
           THEN IF o.put = "throw"
                THEN null(g.requests \o <<"GET issue", "PUT issue">>)
                ELSE [config |-> g.config,
                      platform |->
                        [plat EXCEPT !.issues[issue.iid] =
                           [@ EXCEPT !.title = title,
                                     !.description = description]],
                      status |-> "updated",
                      requests |-> g.requests \o <<"GET issue", "PUT issue">>]
           ELSE null(Append(g.requests, "GET issue"))
      ELSE IF o.post = "throw" \/ Len(plat.issues) >= MaxIssues
           THEN null(Append(g.requests, "POST issue"))
           ELSE [config |-> DeleteIssueList(g.config),
                 platform |->
                   [plat EXCEPT !.issues =
                      Append(@, [title |-> title, description |-> description,
                                 open |-> TRUE])],
                 status |-> "created",
                 requests |-> Append(g.requests, "POST issue")]

\* the loop of lines 1203-1213 from position k of the list, nPut PUTs sent
\* so far, the PUT number failAt throwing
RECURSIVE CloseEach(_, _, _, _, _, _)
CloseEach(plat, list, k, title, nPut, failAt) ==
  IF k > Len(list)
  THEN [platform |-> plat, nPut |-> nPut, threw |-> FALSE]
  ELSE IF list[k].title # title
  THEN CloseEach(plat, list, k + 1, title, nPut, failAt)
  ELSE IF nPut + 1 = failAt
  THEN [platform |-> plat, nPut |-> nPut + 1, threw |-> TRUE]
  ELSE CloseEach([plat EXCEPT !.issues[list[k].iid].open = FALSE],
                 list, k + 1, title, nPut + 1, failAt)

\* what the request of getIssueList can do: none is sent when a list is
\* cached
ListOutcomes(cfg) ==
  IF cfg.issueList.defined THEN {"ok"} ELSE {"ok", "not array", "throw"}

\* what the requests of one call do; a call ends at the first of its
\* requests that throws
Outcomes(cfg) ==
  {o \in [list : ListOutcomes(cfg), get : {"ok", "throw"},
          put : {"ok", "throw"}, post : {"ok", "throw"}] :
     Cardinality({f \in {"list", "get", "put", "post"} : o[f] = "throw"}) <= 1}

\* initRepo, line 334: config = {}; what follows does not touch the list
InitRepo ==
  /\ params' = [op |-> "initRepo", title |-> ""]
  /\ config' = [issueList |-> NoList]
  /\ \E status \in {"void", "throw"} : ret' = [status |-> status, list |-> <<>>]
  /\ api' = <<"GET project">>
  /\ UNCHANGED <<platform, gpc, attempt>>
  /\ UNCHANGED schemaVars

GetIssueList ==
  /\ params' = [op |-> "getIssueList", title |-> ""]
  /\ \E outcome \in ListOutcomes(config) :
       \E g \in {getIssueList(config, platform, outcome)} :
           /\ config' = g.config
           /\ ret' = [status |-> g.status, list |-> g.list]
           /\ api' = g.requests
  /\ UNCHANGED <<platform, gpc, attempt>>
  /\ UNCHANGED schemaVars

EnsureIssue ==
  \E title \in Titles, reuseTitle \in Titles \cup {"undefined"},
     description \in Descriptions, o \in Outcomes(config) :
    \E e \in {ensureIssue(config, platform, title, reuseTitle, description, o)} :
        /\ params' = [op |-> "ensureIssue", title |-> title]
        /\ config' = e.config
        /\ platform' = e.platform
        /\ ret' = [status |-> e.status, list |-> <<>>]
        /\ api' = e.requests
        /\ UNCHANGED <<gpc, attempt>>
        /\ UNCHANGED schemaVars

\* ensureIssueClosing(title), lines 1200-1214: nothing is caught
EnsureIssueClosing ==
  \E title \in Titles, outcome \in ListOutcomes(config), failAt \in 0..2 :
    \E g \in {getIssueList(config, platform, outcome)} :
    \E c \in {CloseEach(platform, g.list, 1, title, 0, failAt)} :
    LET puts == [k \in 1..c.nPut |-> "PUT issue"]
    IN  /\ params' = [op |-> "ensureIssueClosing", title |-> title]
        /\ config' = g.config
        /\ IF g.status = "throw"
           THEN /\ UNCHANGED platform
                /\ ret' = [status |-> "throw", list |-> <<>>]
                /\ api' = g.requests
           ELSE /\ platform' = c.platform
                /\ ret' = [status |-> IF c.threw THEN "throw" ELSE "void",
                           list |-> <<>>]
                /\ api' = g.requests \o puts
        /\ UNCHANGED <<gpc, attempt>>
        /\ UNCHANGED schemaVars

\* the module as loaded (or after resetPlatform, lines 93-100): config = {}
InitIssues ==
  /\ config = [issueList |-> NoList]
  /\ \E existing \in SeqsUpTo(ProjectIssue, 1) :
       platform = [issues |-> existing]
  /\ params = [op |-> "none", title |-> ""]
  /\ gpc = "idle"
  /\ attempt = 0
  /\ api = <<>>
  /\ ret = [status |-> "none", list |-> <<>>]
  /\ SchemaIdle

NextIssues ==
  \/ InitRepo
  \/ GetIssueList
  \/ EnsureIssue
  \/ EnsureIssueClosing

SpecIssues == InitIssues /\ [][NextIssues]_vars

----------------------------------------------------------------------------
(* isCircular on every small object graph *)

GraphAtoms == {Num(1)} \cup {Ref(i) : i \in 1..MaxNodes}

\* the children lists of n objects with at most e element/value slots in all
RECURSIVE GraphKids(_, _)
GraphKids(n, e) ==
  IF n = 0 THEN {<<>>}
  ELSE UNION {{Append(g, kids) : g \in GraphKids(n - 1, e - k),
                                 kids \in [1..k -> GraphAtoms]} : k \in 0..e}

\* odd nodes are plain objects, even nodes are arrays
GraphNode(i, kids) ==
  IF i % 2 = 1 THEN ObjNode([j \in DOMAIN kids |-> ToString(j)], kids)
  ELSE ArrNode(kids)

InitCircular ==
  /\ schema = [kind |-> "NotCircular", Elem |-> "-", Key |-> "-",
               Value |-> "-", hasOnError |-> FALSE, after |-> "none"]
  /\ \/ /\ \E g \in GraphKids(MaxNodes, MaxEdges) :
             heap = [i \in 1..MaxNodes |-> GraphNode(i, g[i])]
        /\ input \in {Ref(1), Ref(2)}
     \/ /\ heap = [i \in 1..MaxNodes |-> GraphNode(i, <<>>)]
        /\ input \in Scalars
  /\ Fresh

SpecCircular == InitCircular /\ [][NotCircularValidate]_vars

----------------------------------------------------------------------------
(* Properties *)

Done(kind) == pc = "done" /\ schema.kind = kind

\* the elements of the input array, the keys and values of the input object
Items == heap[input.n].vals
Keys == heap[input.n].keys

ElemParsed(i) == safeParse(heap, schema.Elem, Items[i])
KeyParsed(i) == safeParse(heap, schema.Key, Str(Keys[i]))
ValueParsed(i) == safeParse(heap, schema.Value, Items[i])

\* the outputs of the elements that validate, in input order
RECURSIVE ValidOutputs(_)
ValidOutputs(n) ==
  IF n = 0 THEN <<>>
  ELSE IF ElemParsed(n).ok
       THEN Append(ValidOutputs(n - 1), ElemParsed(n).out[1])
       ELSE ValidOutputs(n - 1)

\* C1: LooseArray(V).validate(s) on a sequence s returns exactly the outputs
\* of the elements of s that V accepts, in their original order; the output
\* is no longer than s.
C1_FilteredInOrder ==
  (Done("LooseArray") /\ IsArray(heap, input)) =>
    /\ result.ok
    /\ result.out = <<ValidOutputs(Len(Items))>>
    /\ Len(result.out[1]) <= Len(Items)

\* C1 witness: a call that kept some elements and dropped others, and kept
\* one whose output differs from the element
C1_Witness ==
  /\ Done("LooseArray")
  /\ IsArray(heap, input)
  /\ Len(result.out[1]) >= 2
  /\ Len(result.out[1]) < Len(Items)
  /\ \E i \in DOMAIN Items : ElemParsed(i).ok /\ ElemParsed(i).out[1] # Items[i]

\* C2: LooseArray(V).validate(x) fails for every x that is not a sequence,
\* with or without a callback: one invalid_type issue at the root path, no
\* invocation of V or of the callback, no output.
C2_NonArrayFails ==
  (Done("LooseArray") /\ ~IsArray(heap, input)) =>
    /\ ~result.ok
    /\ result.out = <<>>
    /\ Len(result.issues) = 1
    /\ result.issues[1].code = "invalid_type"
    /\ result.issues[1].path = <<>>
    /\ calls = <<>>
    /\ onErrorCalls = <<>>

\* C2 witness: a finished call on a plain object with a callback configured
C2_Witness ==
  /\ Done("LooseArray")
  /\ input = PlainObject
  /\ schema.hasOnError

\* an entry of the input object whose key and value both validate, and the
\* key and value it has once validated
EntryValid(i) == KeyParsed(i).ok /\ ValueParsed(i).ok
EntryOutKey(i) == KeyParsed(i).out[1].s
EntryOutValue(i) == ValueParsed(i).out[1]

\* the last valid entry, in iteration order, with the validated key k
LastWith(k) ==
  CHOOSE i \in DOMAIN Keys :
    /\ EntryValid(i) /\ EntryOutKey(i) = k
    /\ \A j \in DOMAIN Keys :
         (EntryValid(j) /\ EntryOutKey(j) = k) => j <= i

ValidKeys == {EntryOutKey(i) : i \in {j \in DOMAIN Keys : EntryValid(j)}}

\* the mapping an output object (a sequence of entries) stands for
AsMapping(obj) ==
  [k \in {obj[j].k : j \in DOMAIN obj} |->
     obj[CHOOSE j \in DOMAIN obj : obj[j].k = k].v]

UniqueKeys(obj) == \A i, j \in DOMAIN obj : obj[i].k = obj[j].k => i = j

\* C3 as stated: an entry is in the output, under its validated key and with
\* its validated value, if and only if its key and value both validate.
C3_EveryValidEntryKept ==
  (Done("LooseRecord") /\ IsPlainObject(heap, input)) =>
    /\ result.ok
    /\ \A i \in DOMAIN Keys :
         EntryValid(i) =>
           \E j \in DOMAIN result.out[1] :
             result.out[1][j] = [k |-> EntryOutKey(i), v |-> EntryOutValue(i)]
    /\ \A j \in DOMAIN result.out[1] :
         \E i \in DOMAIN Keys :
           /\ EntryValid(i)
           /\ result.out[1][j] = [k |-> EntryOutKey(i), v |-> EntryOutValue(i)]

\* C3 amended: the output has one entry for each validated key of a valid
\* entry and no other entry; its value is the validated value of the last
\* valid entry, in iteration order, with that validated key.
C3_LastValidEntryKept ==
  (Done("LooseRecord") /\ IsPlainObject(heap, input)) =>
    /\ result.ok
    /\ UniqueKeys(result.out[1])
    /\ DOMAIN AsMapping(result.out[1]) = ValidKeys
    /\ \A k \in ValidKeys :
         AsMapping(result.out[1])[k] = EntryOutValue(LastWith(k))

\* C3 witness: two valid entries with the same validated key and different
\* values, beside an entry that is dropped
C3_Witness ==
  /\ Done("LooseRecord")
  /\ IsPlainObject(heap, input)
  /\ \E i, j \in DOMAIN Keys :
       /\ i < j /\ EntryValid(i) /\ EntryValid(j)
       /\ EntryOutKey(i) = EntryOutKey(j)
       /\ EntryOutValue(i) # EntryOutValue(j)
  /\ \E d \in DOMAIN Keys : ~EntryValid(d)

\* whether the input is a collection of the kind the validator takes
ContainerOk ==
  \/ schema.kind = "LooseArray" /\ IsArray(heap, input)
  \/ schema.kind = "LooseRecord" /\ IsPlainObject(heap, input)

\* some element or entry of the input does not validate
SomeDropped ==
  IF schema.kind = "LooseArray"
  THEN \E i \in DOMAIN Items : ~ElemParsed(i).ok
  ELSE \E i \in DOMAIN Keys : ~EntryValid(i)

\* the elements or entries a validator has been invoked on so far
Visited(who) == Len(SelectSeq(calls, LAMBDA c : c.who = who))

\* C4: with a callback configured, a validate call of LooseArray or
\* LooseRecord invokes it at most once, only once every element or entry has
\* been processed and only if one was dropped; never for a fully valid or an
\* empty input.
C4_CallbackAtMostOnce ==
  (schema.kind \in {"LooseArray", "LooseRecord"} /\ schema.hasOnError) =>
    /\ Len(onErrorCalls) <= 1
    /\ onErrorCalls # <<>> =>
         /\ ContainerOk
         /\ idx = Len(Items)
         /\ Visited(IF schema.kind = "LooseArray" THEN "Elem" ELSE "Key")
              = Len(Items)
         /\ SomeDropped

\* C4 witness: a finished call that dropped several elements and invoked the
\* callback once
C4_Witness ==
  /\ pc = "done"
  /\ schema.hasOnError
  /\ Len(onErrorCalls) = 1
  /\ Len(onErrorCalls[1].error) >= 2
  /\ Len(result.out[1]) >= 1

\* C5: on a sequence (LooseArray) or a mapping (LooseRecord) the result is a
\* success holding the filtered output, however many elements or entries
\* fail and whatever the callback returns.
C5_AlwaysSucceeds ==
  (pc = "done" /\ ContainerOk) =>
    /\ result.ok
    /\ result.issues = <<>>
    /\ Len(result.out) = 1
    /\ IF schema.kind = "LooseArray"
       THEN result.out[1] = ValidOutputs(Len(Items))
       ELSE DOMAIN AsMapping(result.out[1]) = ValidKeys

\* C5 witness: every element of a non-empty input failed and the callback
\* returned a value
C5_Witness ==
  /\ pc = "done"
  /\ ContainerOk
  /\ Len(Items) >= 2
  /\ result.ok
  /\ result.out[1] = <<>>
  /\ onErrorRet = "value"

\* a collection validator was given an input of the wrong shape
ShapeViolation ==
  schema.kind \in {"LooseArray", "LooseRecord"} /\ ~ContainerOk

\* NotCircular itself was given a circular input
TopLevelCircular == schema.kind = "NotCircular" /\ HasCycle(heap, input)

FatalIssues(r) == {i \in DOMAIN r.issues : r.issues[i].fatal}

\* an element, key or value validator invoked during the call raised a
\* fatal issue
NestedFatal ==
  \E c \in DOMAIN calls :
    /\ calls[c].who \in {"Elem", "Key", "Value"}
    /\ FatalIssues(safeParse(heap, schema[calls[c].who], calls[c].arg)) # {}

\* C6 as stated: a fatal issue raised anywhere in a composed validate call,
\* also by an element or value validator inside LooseArray or LooseRecord,
\* makes the call fail with no output.
C6_FatalAlwaysAborts ==
  (pc = "done" /\ (ShapeViolation \/ TopLevelCircular \/ NestedFatal)) =>
    /\ ~result.ok
    /\ result.out = <<>>

\* C6 amended: a container-shape violation, or a circular input given to
\* NotCircular itself, fails the call with no output and nothing composed
\* after it runs; a fatal issue raised by a validator inside LooseArray or
\* LooseRecord is absorbed like any other: the call succeeds, and the issue
\* is reported to the callback if there is one.
C6_FatalAbortsOutsideCollections ==
  /\ (pc = "done" /\ (ShapeViolation \/ TopLevelCircular)) =>
       /\ ~result.ok
       /\ result.out = <<>>
       /\ result.issues # <<>>
       /\ downstream = <<>>
  /\ (pc = "done" /\ NestedFatal) =>
       /\ result.ok
       /\ Len(result.out) = 1
       /\ schema.hasOnError =>
            /\ Len(onErrorCalls) = 1
            /\ \E i \in DOMAIN onErrorCalls[1].error :
                 onErrorCalls[1].error[i].fatal

\* C6 witness: LooseArray(NotCircular) has returned the elements around a
\* circular one
C6_Witness ==
  /\ Done("LooseArray")
  /\ schema.Elem = "NotCircular"
  /\ NestedFatal
  /\ result.ok
  /\ Len(result.out[1]) >= 2

\* C7: whenever an object reachable from the root is reachable from itself,
\* isCircular(root) is true and NotCircular fails.
C7_CyclesAreFound ==
  (Done("NotCircular") /\ HasCycle(heap, input)) =>
    /\ isCircular(heap, input, {})
    /\ ~result.ok

\* C7 witness: the cycle is below the root, which is not part of it, and is
\* not under the root's first child
C7_Witness ==
  /\ Done("NotCircular")
  /\ HasCycle(heap, input)
  /\ input.n \notin ReachableFrom(heap, Children(heap, input.n))
  /\ ~HasCycle(heap, heap[input.n].vals[1])
  /\ ~result.ok

\* C8: on a graph without a cycle isCircular(root) is false and NotCircular
\* succeeds, also when an object is referenced more than once; scalars and
\* null are acyclic.
C8_NoFalsePositive ==
  (Done("NotCircular") /\ ~HasCycle(heap, input)) =>
    /\ ~isCircular(heap, input, {})
    /\ result.ok

\* the objects referenced from two sibling slots, or from two objects
SharedObjects ==
  {n \in DOMAIN heap :
     \/ \E m \in DOMAIN heap : \E i, j \in DOMAIN heap[m].vals :
          i # j /\ heap[m].vals[i] = Ref(n) /\ heap[m].vals[j] = Ref(n)
     \/ \E m1, m2 \in DOMAIN heap :
          m1 # m2 /\ n \in Children(heap, m1) /\ n \in Children(heap, m2)}

\* C8 witness: an acyclic graph whose root reaches, along two paths of
\* different length, an object that is shared
C8_Witness ==
  /\ Done("NotCircular")
  /\ input.t = "ref"
  /\ ~HasCycle(heap, input)
  /\ \E n \in SharedObjects \cap Descendants(heap, input) :
       /\ n \in Children(heap, input.n)
       /\ \E m \in Children(heap, input.n) \ {n} : n \in Children(heap, m)
  /\ result.ok

\* C9: NotCircular takes any input; on an input whose graph has a cycle it
\* fails with a single fatal issue and nothing composed after it runs; on any
\* other input it succeeds with the input itself as output.
C9_NotCircularContract ==
  Done("NotCircular") =>
    IF HasCycle(heap, input)
    THEN /\ ~result.ok
         /\ result.out = <<>>
         /\ Len(result.issues) = 1
         /\ result.issues[1].fatal
         /\ downstream = <<>>
    ELSE /\ result.ok
         /\ result.out = <<input>>
         /\ result.issues = <<>>

\* C9 witness: a refinement was composed after NotCircular and the input
\* reaches a cycle through another object
C9_Witness ==
  /\ Done("NotCircular")
  /\ schema.after = "refine"
  /\ HasCycle(heap, input)
  /\ input.n \notin ReachableFrom(heap, Children(heap, input.n))
  /\ ~result.ok

\* the parser was called and threw
ParserThrew ==
  /\ calls # <<>>
  /\ calls[1].who = "parser"
  /\ calls[1].arg.threw

\* the format each text-format validator reads
FormatName(f) ==
  CASE f = "Json" -> "JSON"
    [] f = "Json5" -> "JSON5"
    [] f = "Jsonc" -> "JSONC"
    [] f \in {"Yaml", "MultidocYaml", "multidocYaml"} -> "YAML"
    [] f = "Toml" -> "TOML"

\* C10: when the parser rejects the text, a text-format validator fails with
\* exactly one issue, of code custom, at the root path, whose message names
\* the format, and with no output.
C10_ParserRejection ==
  (pc = "done" /\ schema.kind \in Formats /\ ParserThrew) =>
    /\ ~result.ok
    /\ result.out = <<>>
    /\ Len(result.issues) = 1
    /\ result.issues[1].code = "custom"
    /\ result.issues[1].path = <<>>
    /\ result.issues[1].message = "Invalid " \o FormatName(schema.kind)

\* C10 witness: the YAML parser threw on a text
C10_Witness ==
  /\ Done("multidocYaml")
  /\ input.t = "str"
  /\ ParserThrew
  /\ ~result.ok

----------------------------------------------------------------------------
(* Claims on the format-coercing validators *)

FormatCoercing == Formats \cup {"UtcDate"}

\* the delegated parser returned a value
ParserReturned ==
  /\ calls # <<>>
  /\ calls[1].who = "parser"
  /\ ~calls[1].arg.threw

\* the date parser reported an unreadable text by an invalid DateTime
DateInvalid ==
  /\ calls # <<>>
  /\ calls[1].who = "fromISO"
  /\ ~calls[1].arg.value.isValid

RECURSIVE JsonStringify(_, _)
RECURSIVE JsonStringifyItems(_, _, _)
JsonStringifyItems(h, node, i) ==
  IF i > Len(node.vals) THEN ""
  ELSE (IF i > 1 THEN "," ELSE "")
       \o (IF node.kind = "obj" THEN "\"" \o node.keys[i] \o "\":" ELSE "")
       \o JsonStringify(h, node.vals[i])
       \o JsonStringifyItems(h, node, i + 1)

JsonStringify(h, x) ==
  CASE x.t = "null" -> "null"
    [] x.t = "num" -> ToString(x.n)
    [] x.t = "str" -> "\"" \o x.s \o "\""
    [] OTHER -> IF h[x.n].kind = "arr"
                THEN "[" \o JsonStringifyItems(h, h[x.n], 1) \o "]"
                ELSE "{" \o JsonStringifyItems(h, h[x.n], 1) \o "}"

\* equality of two values by structure
RECURSIVE DeepEqual(_, _, _)
DeepEqual(h, a, b) ==
  IF a.t # "ref" \/ b.t # "ref" THEN a = b
  ELSE /\ h[a.n].kind = h[b.n].kind
       /\ h[a.n].keys = h[b.n].keys
       /\ Len(h[a.n].vals) = Len(h[b.n].vals)
       /\ \A i \in DOMAIN h[a.n].vals :
            DeepEqual(h, h[a.n].vals[i], h[b.n].vals[i])

\* values JSON represents
JsonRepresentable == {Null, Num(1), Str("a"), PlainObject}

\* C12: when the parser accepts the text, a text-format validator succeeds
\* with exactly the value the parser returned; so Json on the serialization
\* of a JSON value x gives a value equal to x.
C12_OutputIsParserResult ==
  /\ (pc = "done" /\ schema.kind \in Formats /\ ParserReturned) =>
       result = Success(calls[1].arg.value)
  /\ \A x \in JsonRepresentable :
       (Done("Json") /\ input = Str(JsonStringify(heap, x))) =>
         /\ result.ok
         /\ DeepEqual(heap, result.out[1], x)

\* C12 witness: Json read the serialization of the object {x: 1} and
\* returned the object the parser built, equal to it
C12_Witness ==
  /\ Done("Json")
  /\ input = Str(JsonStringify(heap, PlainObject))
  /\ ParserReturned
  /\ result.ok
  /\ result.out[1] = ParsedObject

\* the calendar dates that exist, among those the texts of the model name
RealDates ==
  {<<2024, 3, 1>>, <<2024, 2, 29>>}

\* the texts without an offset, and the hour of the day each names
NoOffsetTexts == {"2024-03-01T00:00:00", "2024-02-29T12:00:00"}

\* C13: UtcDate reads an ISO 8601 text without an offset as UTC, and fails
\* with one custom issue and no output on every text that names no valid
\* date, such as "not-a-date" or "2024-02-30T00:00:00Z"; it never succeeds
\* with an invalid or clamped date.
C13_UtcDate ==
  (Done("UtcDate") /\ input.t = "str") =>
    LET f == IsoFields(input.s)
    IN  /\ input.s \in {"not-a-date", "2024-02-30T00:00:00Z"} => ~result.ok
        /\ result.ok =>
             /\ f.matched
             /\ <<f.y, f.mo, f.d>> \in RealDates
             /\ f.h \in 0..24
             /\ result.out[1].t = "date"
             /\ result.out[1].s = "utc"
             /\ result.out[1].n + (IF f.hasOffset THEN f.offset ELSE 0)
                  = DayNumber(f.y, f.mo, f.d) * 24 + f.h
        /\ ~result.ok =>
             /\ ~(f.matched /\ <<f.y, f.mo, f.d>> \in RealDates
                  /\ f.h \in 0..24)
             /\ result.out = <<>>
             /\ Len(result.issues) = 1
             /\ result.issues[1].code = "custom"
             /\ result.issues[1].message = "Invalid date"
        /\ input.s \in NoOffsetTexts => result.ok

\* C13 witness: a text without an offset was read as noon UTC of that day
C13_Witness ==
  /\ Done("UtcDate")
  /\ input = Str("2024-02-29T12:00:00")
  /\ result.ok
  /\ result.out[1].s = "utc"
  /\ result.out[1].n = DayNumber(2024, 2, 29) * 24 + 12

----------------------------------------------------------------------------
(* Claims on the arguments and the input of LooseRecord *)

\* the key validator is the default one: the call names none
DefaultKey ==
  \/ Len(schema.args) = 1
  \/ Len(schema.args) = 2 /\ ~schema.args[2].isZodType

\* C14: LooseRecord reads three arguments as (key, value, options), two
\* arguments whose second is a validator instance as (key, value) without
\* diagnostics, two arguments whose second is not one as (value, options)
\* with the default key validator, and one argument as (value); an options
\* object is never taken for the value validator nor a validator for the
\* options; with the default key validator no entry is dropped for its key.
C14_ArgumentResolution ==
  schema.kind = "LooseRecord" =>
    LET a == schema.args
    IN  /\ Len(a) = 3 =>
             /\ schema.Key = a[1].name
             /\ schema.Value = a[2].name
             /\ schema.hasOnError = a[3].hasOnError
        /\ (Len(a) = 2 /\ a[2].isZodType) =>
             /\ schema.Key = a[1].name
             /\ schema.Value = a[2].name
             /\ ~schema.hasOnError
        /\ (Len(a) = 2 /\ ~a[2].isZodType) =>
             /\ schema.Key = "ZAny"
             /\ schema.Value = a[1].name
             /\ schema.hasOnError = a[2].hasOnError
        /\ Len(a) = 1 =>
             /\ schema.Key = "ZAny"
             /\ schema.Value = a[1].name
             /\ ~schema.hasOnError
        /\ \E i \in DOMAIN a : a[i].isZodType /\ a[i].name = schema.Value
        /\ (DefaultKey /\ pc = "done" /\ IsPlainObject(heap, input)) =>
             \A i \in DOMAIN Keys :
               /\ KeyParsed(i).ok
               /\ ValueParsed(i).ok <=>
                    \E j \in DOMAIN result.out[1] : result.out[1][j].k = Keys[i]

\* C14 witness: a call with a value validator and an options object without
\* onError has kept an entry and dropped another for its value
C14_Witness ==
  /\ Done("LooseRecord")
  /\ Len(schema.args) = 2
  /\ ~schema.args[2].isZodType
  /\ ~schema.args[2].hasOnError
  /\ IsPlainObject(heap, input)
  /\ \E i, j \in DOMAIN Keys : ValueParsed(i).ok /\ ~ValueParsed(j).ok
  /\ Len(result.out[1]) = 1

\* C15: on an input that is not a mapping (a scalar, null or a sequence)
\* LooseRecord fails in every form of the call, without invoking the key
\* validator, the value validator or the callback, and with no output.
C15_NonMappingFails ==
  (Done("LooseRecord") /\ ~IsPlainObject(heap, input)) =>
    /\ ~result.ok
    /\ result.out = <<>>
    /\ result.issues # <<>>
    /\ calls = <<>>
    /\ onErrorCalls = <<>>
    /\ output = <<>>

\* C15 witness: a finished call with three arguments on a sequence
C15_Witness ==
  /\ Done("LooseRecord")
  /\ input = ListArray
  /\ Len(schema.args) = 3
  /\ schema.hasOnError
  /\ ~result.ok

----------------------------------------------------------------------------
(* Claims on the logging callbacks *)

\* C16: the callback made by withDebugMessage or withTraceMessage returns
\* exactly the value it was made with, whatever the error context, and logs
\* the error with the message exactly once per invocation, at debug level
\* for the former and at trace level for the latter.
C16_SinkReturnsDefault ==
  schema.kind \in SinkKinds =>
    /\ pc = "start" => Len(calls) = idx
    /\ pc = "done" =>
         /\ output = <<schema.value>>
         /\ Len(calls) = idx + 1
         /\ calls[idx + 1].arg = [err |-> issues, msg |-> schema.msg]
         /\ schema.kind = "withDebugMessage" =>
              calls[idx + 1].who = "logger.debug"
         /\ schema.kind = "withTraceMessage" =>
              calls[idx + 1].who = "logger.trace"

\* C16 witness: a trace callback made with an object has been invoked twice
\* and has returned that object
C16_Witness ==
  /\ Done("withTraceMessage")
  /\ idx = 1
  /\ Len(calls) = 2
  /\ calls[2].who = "logger.trace"
  /\ schema.value = PlainObject
  /\ output = <<PlainObject>>

----------------------------------------------------------------------------
(* Claims on calls that share a validator instance *)

\* the locals of a call made alone on the input of call c, after k
\* iterations, and once it has returned
RECURSIVE Alone(_, _)
Alone(c, k) ==
  IF k = 0 THEN CallBased(heap, schema, NewCall(inflight[c].input))
  ELSE Iteration(heap, schema, heap[inflight[c].input.n], Alone(c, k - 1))

AloneDone(c) ==
  LET based == CallBased(heap, schema, NewCall(inflight[c].input))
      node == heap[inflight[c].input.n]
  IN  IF based.pc = "done" THEN based
      ELSE CallReturned(schema, node, Alone(c, Len(node.vals)))

\* C17: a LooseArray or LooseRecord instance keeps no state from one
\* validate call to another: however the steps of two calls on the instance
\* are ordered, the output and issues of each call are at every step those
\* of the call made alone, and so are its result and the payload of its
\* callback; no issue of one call is in the payload of the other.
C17_CallsAreIndependent ==
  \A c \in DOMAIN inflight :
    /\ inflight[c].pc = "loop" => inflight[c] = Alone(c, inflight[c].idx)
    /\ inflight[c].pc = "done" => inflight[c] = AloneDone(c)

\* C17 witness: both calls on an instance with a callback have returned,
\* each after dropping something, with different payloads
C17_Witness ==
  /\ DOMAIN inflight = CallIds
  /\ schema.hasOnError
  /\ \A c \in CallIds : inflight[c].pc = "done" /\ inflight[c].payloads # <<>>
  /\ inflight[1].payloads[1].error # inflight[2].payloads[1].error

----------------------------------------------------------------------------
(* Claims on the entries LooseRecord drops and on the issues handed to the
   callback *)

\* the entries processed so far whose key validated
KeyPassed == {i \in 1..idx : KeyParsed(i).ok}

\* C18 as stated: for an entry whose key fails, the value validator is not
\* invoked on the value and the entry is dropped, with or without a
\* callback: the value validator has run once for each processed entry
\* whose key validated, and no more.
C18_FailedKeySkipsValue ==
  (schema.kind = "LooseRecord" /\ pc \in {"loop", "done"}
     /\ IsPlainObject(heap, input)) =>
    /\ Visited("Value") = Cardinality(KeyPassed)
    /\ \A j \in DOMAIN output :
         \E i \in KeyPassed : output[j].k = EntryOutKey(i)

\* the issues a validator reported, below a path segment
Below(segment, iss) ==
  [j \in DOMAIN iss |-> [iss[j] EXCEPT !.path = <<segment>> \o iss[j].path]]

\* the issues of the dropped entries among the first n, in iteration order,
\* each below the key the entry has in the input
RECURSIVE DroppedEntryIssues(_)
DroppedEntryIssues(n) ==
  IF n = 0 THEN <<>>
  ELSE DroppedEntryIssues(n - 1) \o
         (IF ~KeyParsed(n).ok THEN Below(Str(Keys[n]), KeyParsed(n).issues)
          ELSE IF ~ValueParsed(n).ok
          THEN Below(Str(Keys[n]), ValueParsed(n).issues)
          ELSE <<>>)

\* C19: LooseRecord with a callback hands it the issues of the dropped
\* entries only, each with the raw input key of its entry (not the
\* validated key) as first path segment, for a failed key as for a failed
\* value, followed by the path the validator reported, together with the
\* original input; LooseRecord(string, Json) on {a: '{"x":1}', b: 'not json'}
\* returns {a: {x: 1}} and gives the callback one issue, at path b.
C19_RecordIssuePaths ==
  (Done("LooseRecord") /\ schema.hasOnError /\ IsPlainObject(heap, input)
     /\ SomeDropped) =>
    /\ Len(onErrorCalls) = 1
    /\ onErrorCalls[1].input = heap[input.n]
    /\ onErrorCalls[1].error = DroppedEntryIssues(Len(Keys))
    /\ \A j \in DOMAIN onErrorCalls[1].error :
         \E i \in DOMAIN Keys :
           /\ ~EntryValid(i)
           /\ Head(onErrorCalls[1].error[j].path) = Str(Keys[i])
    /\ heap[input.n] = ExampleRecord =>
         /\ result = Success(<<[k |-> "a", v |-> ParsedObject]>>)
         /\ Len(onErrorCalls[1].error) = 1
         /\ onErrorCalls[1].error[1].path = <<Str("b")>>

\* C19 witness: under a lower-casing key validator the entry with key A was
\* dropped for its value, and its issue is at path A, x
C19_Witness ==
  /\ Done("LooseRecord")
  /\ schema.hasOnError
  /\ schema.Key = "ZLower"
  /\ Len(onErrorCalls) = 1
  /\ \E j \in DOMAIN onErrorCalls[1].error :
       onErrorCalls[1].error[j].path = <<Str("A"), Str("x")>>

\* the issues of the failing elements among the first n, in input order,
\* each below the index the element has in the input
RECURSIVE DroppedElementIssues(_)
DroppedElementIssues(n) ==
  IF n = 0 THEN <<>>
  ELSE DroppedElementIssues(n - 1) \o
         (IF ~ElemParsed(n).ok THEN Below(Num(n - 1), ElemParsed(n).issues)
          ELSE <<>>)

\* C20: LooseArray with a callback hands it every issue of every failing
\* element, with the index the element has in the input (not in the output)
\* put before the path the element validator reported, the issues of all
\* failing elements in one list in input order, and the original sequence,
\* dropped elements included, as input.
C20_ArrayIssuePaths ==
  (Done("LooseArray") /\ schema.hasOnError /\ IsArray(heap, input)
     /\ SomeDropped) =>
    /\ Len(onErrorCalls) = 1
    /\ onErrorCalls[1].input = heap[input.n]
    /\ onErrorCalls[1].error = DroppedElementIssues(Len(Items))
    /\ \A j \in DOMAIN onErrorCalls[1].error :
         LET path == onErrorCalls[1].error[j].path
         IN  /\ Head(path).t = "num"
             /\ Head(path).n + 1 \in DOMAIN Items
             /\ \E k \in DOMAIN ElemParsed(Head(path).n + 1).issues :
                  ElemParsed(Head(path).n + 1).issues[k].path = Tail(path)
    /\ \A j, k \in DOMAIN onErrorCalls[1].error :
         j < k => Head(onErrorCalls[1].error[j].path).n
                    <= Head(onErrorCalls[1].error[k].path).n

\* C20 witness: an element after a kept one and a dropped one has failed
\* with two issues, found at its input index: one at x, one of its own
C20_Witness ==
  /\ Done("LooseArray")
  /\ schema.hasOnError
  /\ IsArray(heap, input)
  /\ Len(Items) = 3
  /\ ElemParsed(1).ok
  /\ ~ElemParsed(2).ok
  /\ Len(onErrorCalls) = 1
  /\ \E j \in DOMAIN onErrorCalls[1].error :
       /\ onErrorCalls[1].error[j].path = <<Num(2), Str("x")>>
       /\ j + 1 \in DOMAIN onErrorCalls[1].error
       /\ onErrorCalls[1].error[j + 1].path = <<Num(2)>>

----------------------------------------------------------------------------
(* Claims on the two branches of LooseArray and LooseRecord *)

\* the validator built from the same element, key and value validators,
\* with a callback if `schema` has none and without one if it has
OtherBranch == [schema EXCEPT !.hasOnError = ~schema.hasOnError]

----------------------------------------------------------------------------
(* Claims on the traversal of isCircular *)

\* the calls of isCircular(input), and the objects of the graph of input
Walk == isCircularWalk(heap, input, {}, <<>>)
Composite == Descendants(heap, input)

\* the call of a frame found its object among the open ancestors
HitsAncestor(frame) ==
  frame.value.t = "ref" /\ frame.value.n \in frame.visited

Range(seq) == {seq[i] : i \in DOMAIN seq}

\* C22: isCircular terminates on every finite graph, cyclic or not: no
\* object is twice on the call stack, so the depth of the recursion is at
\* most the number of distinct objects plus one, and the first call that
\* finds its object among the open ancestors is the last call made.
C22_TraversalIsBounded ==
  Done("NotCircular") =>
    /\ Walk.found = isCircular(heap, input, {})
    /\ \A k \in DOMAIN Walk.frames :
         LET frame == Walk.frames[k]
         IN  /\ Len(frame.path) + 1 <= Cardinality(Composite) + 1
             /\ \A i, j \in DOMAIN frame.path :
                  frame.path[i] = frame.path[j] => i = j
             /\ Range(frame.path) \subseteq Composite
             /\ HitsAncestor(frame) => k = Len(Walk.frames)
    /\ Walk.found <=> HitsAncestor(Walk.frames[Len(Walk.frames)])

\* C22 witness: the recursion reached the depth of the number of objects
\* plus one on a graph with a cycle, and a sibling after the cycle was left
\* unvisited
C22_Witness ==
  /\ Done("NotCircular")
  /\ input.t = "ref"
  /\ Walk.found
  /\ Len(Walk.frames[Len(Walk.frames)].path) = Cardinality(Composite)
  /\ Cardinality(Composite) >= 2
  /\ \E n \in Composite : \E i \in DOMAIN heap[n].vals :
       /\ i > 1
       /\ \A k \in DOMAIN Walk.frames :
            ~(Walk.frames[k].path # <<>>
              /\ Walk.frames[k].path[Len(Walk.frames[k].path)] = n
              /\ Walk.frames[k].value = heap[n].vals[i])

\* C27: a call of isCircular leaves the visited set it received as it was:
\* each object gives its children the set it received plus itself, so the
\* visited set of every call is the set of the objects whose calls are open
\* above it, and holds nothing a sibling's traversal went through.
C27_VisitedIsAncestors ==
  Done("NotCircular") =>
    \A k \in DOMAIN Walk.frames :
      /\ Walk.frames[k].visited = Range(Walk.frames[k].path)
      /\ k = 1 => Walk.frames[k].visited = {}

\* C27 witness: a call was made on an object a previous sibling's traversal
\* had been through, with a visited set that does not hold it
C27_Witness ==
  /\ Done("NotCircular")
  /\ ~Walk.found
  /\ \E j, k \in DOMAIN Walk.frames :
       /\ j < k
       /\ Walk.frames[j].value.t = "ref"
       /\ Walk.frames[k].value = Walk.frames[j].value
       /\ Walk.frames[k].visited # {}
       /\ Walk.frames[j].value.n \notin Walk.frames[k].visited

----------------------------------------------------------------------------
(* Claims on entries of LooseRecord with the same validated key *)

\* the entries of the input whose key and value both validate
ValidEntries == {i \in DOMAIN Keys : EntryValid(i)}

\* C23: when the key validator of LooseRecord gives several kept entries
\* the same validated key, the output has one entry for that key, with the
\* value of the last of them in iteration order; the output never has more
\* entries than there are entries whose key and value validate, and can
\* have fewer.
C23_CollidingKeysLastWins ==
  (Done("LooseRecord") /\ IsPlainObject(heap, input)) =>
    /\ Len(result.out[1]) <= Cardinality(ValidEntries)
    /\ \A i, j \in ValidEntries :
         (i < j /\ EntryOutKey(i) = EntryOutKey(j)
            /\ \A l \in ValidEntries : EntryOutKey(l) = EntryOutKey(i) => l <= j)
         => /\ Cardinality({n \in DOMAIN result.out[1] :
                              result.out[1][n].k = EntryOutKey(j)}) = 1
            /\ \A n \in DOMAIN result.out[1] :
                 result.out[1][n].k = EntryOutKey(j) =>
                   result.out[1][n].v = EntryOutValue(j)

\* C23 witness: three entries validate, two of them under the same key and
\* with different values, and the output has two entries
C23_Witness ==
  /\ Done("LooseRecord")
  /\ IsPlainObject(heap, input)
  /\ Cardinality(ValidEntries) = 3
  /\ Len(result.out[1]) = 2
  /\ \E i, j \in ValidEntries :
       /\ i < j
       /\ EntryOutKey(i) = EntryOutKey(j)
       /\ EntryOutValue(i) # EntryOutValue(j)

----------------------------------------------------------------------------
(* Claims on the gitlab platform *)

\* the call returned a status
Returned24 ==
  /\ gpc = "done"
  /\ params.op = "getBranchStatus"
  /\ ret # "throw"

\* the checks the call looked at, and those among them that are neither
\* skipped nor allowed to fail
BranchChecks ==
  IF platform.statuses.outcome = "ok"
  THEN WithHeadPipeline(platform.statuses.body, platform.mr)
  ELSE <<>>

Counted ==
  {i \in DOMAIN BranchChecks :
     BranchChecks[i].status # "skipped" /\ ~BranchChecks[i].allow_failure}

\* C24: getBranchStatus on an existing branch returns red exactly when some
\* check that is not skipped and not allowed to fail has failed or was
\* canceled, in whatever order the checks come; it returns yellow when no
\* check is left once the skipped ones are set aside; it returns green only
\* when every check that is not skipped and not allowed to fail succeeded.
C24_BranchStatus ==
  Returned24 =>
    /\ ret = "red" <=>
         \E i \in Counted : BranchChecks[i].status \in {"failed", "canceled"}
    /\ (\A i \in DOMAIN BranchChecks : BranchChecks[i].status = "skipped")
         => ret = "yellow"
    /\ ret = "green" =>
         \A i \in Counted : BranchChecks[i].status = "success"
    /\ ret \in {"red", "yellow", "green"}

\* C24 witness: a failed check came first, a pending check and a successful
\* head pipeline after it, and the call returned red
C24_Witness ==
  /\ Returned24
  /\ Len(BranchChecks) = 3
  /\ BranchChecks[1].status = "failed"
  /\ BranchChecks[2].status = "pending"
  /\ BranchChecks[3].status = "success"
  /\ Counted = {1, 2, 3}
  /\ ret = "red"

\* the polls and the PUTs of the call so far, as positions of the request log
Polls == {i \in DOMAIN api : api[i].request = "GET"}
Puts == {i \in DOMAIN api : api[i].request = "PUT"}

\* a poll that shows a mergeable status with a failed or running pipeline
Satisfying(i) ==
  /\ api[i].response.outcome = "ok"
  /\ \/ api[i].response.body.detailed_merge_status
          \in {"mergeable", "ci_still_running", "not_approved"}
     \/ /\ api[i].response.body.detailed_merge_status = ""
        /\ api[i].response.body.merge_status = "can_be_merged"
  /\ api[i].response.body.pipeline \in {"failed", "running"}

\* every poll returned a body that did not satisfy and that could be read
PollingExhausted ==
  /\ Cardinality(Polls) = params.retryTimes
  /\ \A i \in Polls :
       /\ api[i].response.outcome = "ok"
       /\ ~Satisfying(i)
       /\ PollOutcome(api[i].response.body) # "TypeError"

AutomergeBounded ==
  (params.op = "tryPrAutomerge" /\ params.usePlatformAutomerge) =>
    /\ Cardinality(Polls) <= params.retryTimes
    /\ Cardinality(Puts) <= params.retryTimes
    /\ \A i \in Polls, j \in Puts : i < j
    /\ \A i \in Polls : Satisfying(i) => \A j \in Polls : j <= i
    /\ \A i \in Puts :
         api[i].response.outcome = "ok" => \A j \in Puts : j <= i
    /\ (gpc = "done" /\ PollingExhausted /\ params.retryTimes > 0)
         => Puts # {}
    /\ ret # "throw"
    /\ gpc = "done" => ret = "returned"

\* C25: with usePlatformAutomerge and retryTimes = N, tryPrAutomerge polls
\* the merge request at most N times and no poll follows one that shows a
\* mergeable status with a failed or running pipeline; it then sends at most
\* N PUTs and no PUT follows one that succeeded; the PUTs are sent even when
\* every poll failed to satisfy; and the call always completes, without
\* throwing, whatever the requests return or throw.
C25_AutomergeBoundedAndCompletes ==
  /\ []AutomergeBounded
  /\ <>(gpc = "done" /\ ret = "returned")

\* C25 witness: two polls, the second satisfying, then a PUT that threw and a
\* PUT that succeeded, and the call returned
C25_Witness ==
  /\ params.op = "tryPrAutomerge"
  /\ params.usePlatformAutomerge
  /\ params.retryTimes = 2
  /\ gpc = "done"
  /\ ret = "returned"
  /\ Polls = {1, 2}
  /\ ~Satisfying(1)
  /\ Satisfying(2)
  /\ Puts = {3, 4}
  /\ api[3].response.outcome = "throw"
  /\ api[4].response.outcome = "ok"

\* the step sent a request for the issue list
Fetches == \E k \in DOMAIN api' : api'[k] = "GET issues"

\* the step is an ensureIssue that returned 'created'
Creates == params'.op = "ensureIssue" /\ ret'.status = "created"

\* a cached list has every open issue of the project
ListHasOpenIssues ==
  config.issueList.defined =>
    \A i \in DOMAIN platform.issues :
      platform.issues[i].open =>
        \E k \in DOMAIN config.issueList.list :
          config.issueList.list[k].iid = i

IssueListStep ==
  /\ Fetches => ~config.issueList.defined
  /\ (params'.op = "getIssueList" /\ config.issueList.defined) =>
       /\ api' = <<>>
       /\ ret'.status = "list"
       /\ ret'.list = config.issueList.list
       /\ config' = config
  /\ (params'.op = "getIssueList" /\ ~config.issueList.defined) =>
       /\ api' = <<"GET issues">>
       /\ config'.issueList.defined =>
            /\ ret'.list = config'.issueList.list
            /\ \A i \in DOMAIN platform.issues :
                 platform.issues[i].open =>
                   \E k \in DOMAIN ret'.list :
                     /\ ret'.list[k].iid = i
                     /\ ret'.list[k].title = platform.issues[i].title
  /\ Creates =>
       /\ ~config'.issueList.defined
       /\ Len(platform'.issues) = Len(platform.issues) + 1
       /\ platform'.issues[Len(platform'.issues)].title = params'.title
       /\ platform'.issues[Len(platform'.issues)].open
  /\ params'.op = "initRepo" => ~config'.issueList.defined
  /\ (config.issueList.defined /\ ~Creates /\ params'.op # "initRepo") =>
       config' = config

\* C26: the issue list is requested from the platform only when no cached
\* list exists; once a getIssueList has stored a list, getIssueList returns
\* that list without a request, until an ensureIssue that returns 'created'
\* deletes it, or initRepo clears it; the getIssueList after a creation
\* fetches again and its list has the new issue, so a cached list never
\* lacks an open issue of the project.
C26_IssueListCached ==
  /\ []ListHasOpenIssues
  /\ [][IssueListStep]_vars

\* C26 witness: ensureIssue found no issue of its title in the cached list,
\* which it read without a request, created the issue as the second of the
\* project, and the cached list is gone
C26_Witness ==
  /\ params.op = "ensureIssue"
  /\ ret.status = "created"
  /\ api = <<"POST issue">>
  /\ ~config.issueList.defined
  /\ Len(platform.issues) = 2
  /\ platform.issues[1].open
  /\ platform.issues[2].title = params.title

====
